---------------------------- MODULE Spec2Model ----------------------------
(***************************************************************************)
(* CachingAllocator<ThreadLock> of the CUDA kernels: a binned device       *)
(* memory allocator (Piece / Bin / Block) on top of cudaMalloc / cudaFree. *)
(*                                                                         *)
(* A Piece* is the index of the descriptor in pieces_ (NULL is 0); a       *)
(* char* / void* is a byte address (nullptr is 0).  Each std::set of a Bin *)
(* is the sequence of its elements in tree order.  A handler is computed   *)
(* on a record of the allocator's members, statement by statement; a       *)
(* failed RV_CHECK / CHECK_EQ stops the handler at that statement and      *)
(* records the line of the check.                                          *)
(***************************************************************************)
EXTENDS Integers, Sequences, FiniteSets, Bags, TLC

NULL == 0

kInvalidBinNum == -1
kBinNumSize == 20
kAlignSize == 512
kCudaAlignSize == 512
kPieceSplitThreshold == 128 * 1048576

\* Bounds of the model: the device has DeviceSlots granules of DevGran bytes,
\* the caller holds at most MaxOutstanding addresses at a time and makes at
\* most MaxCalls calls from one thread, or MaxThreadCalls calls from NumThreads
\* threads.
DeviceSlots == 12
MaxOutstanding == 3
MaxCalls == 5
NumThreads == 2
MaxThreadCalls == 4
DevGran == 16 * 4096 * 512
DevBase == DevGran
DevEnd == DevBase + DeviceSlots * DevGran

\* A size_t of 2^63 or more is written as the negative number it is as a
\* 64-bit two's complement: SIZE_MAX, 2^64 - 1, is -1.  For val a power of
\* two, RoundUp below then yields the value of the C expression modulo 2^64.
SIZE_MAX == 0 - 1

\* a <= b on size_t
ULe(a, b) == IF (a >= 0) = (b >= 0) THEN a <= b ELSE a >= 0

\* a < b on size_t
ULt(a, b) == a # b /\ ULe(a, b)

\* The sizes the caller asks for: 0, a small size, the largest aligned size
\* of the first growth tier, the first sizes of the second and the third, the
\* largest aligned size_t, 2^64 - 512, and the largest size_t.
Sizes == {0, 100, 1048576 - 512, 1048576, 10485760, SIZE_MAX - 511, SIZE_MAX}

-----------------------------------------------------------------------------
(* Pure helpers *)

RoundUp(n, val) == ((n + val - 1) \div val) * val

MemAlignedBytes(bytes, alignment) == RoundUp(bytes, alignment)

IsAlignedSize(size, alignment) == size % alignment = 0

Max(a, b) == IF a >= b THEN a ELSE b
Min(a, b) == IF a <= b THEN a ELSE b

\* 63 ^ __builtin_clzll(value): the index of the highest set bit of value >= 1
RECURSIVE HighBit(_)
HighBit(value) == IF value <= 1 THEN 0 ELSE 1 + HighBit(value \div 2)

BinSize4BinNum(bin_num) == kAlignSize * (2 ^ bin_num)

\* faulty variant of BinNum4BinSize: the shift is by 10
BinNum4BinSize_Shift10(size) ==
    IF size < 0 THEN kBinNumSize - 1
    ELSE Min(kBinNumSize - 1, HighBit(Max(size, kAlignSize) \div (2 ^ 10)))

\* a size of 2^63 or more has its highest bit at 63 - 9 after the shift
BinNum4BinSize(size) ==
    IF size < 0 THEN kBinNumSize - 1
    ELSE Min(kBinNumSize - 1, HighBit(Max(size, kAlignSize) \div (2 ^ 9)))

NewPiece == [size |-> 0, ptr |-> NULL, is_free |-> FALSE,
             prev |-> NULL, next |-> NULL, bin_num |-> kInvalidBinNum]

NewBlock(s, p) == [size |-> s.pieces_[p].size, ptr |-> s.pieces_[p].ptr, start_piece |-> p]

\* Bin::PieceCmp on the descriptors' current fields
PieceCmp(s, lhs, rhs) ==
    IF s.pieces_[lhs].size # s.pieces_[rhs].size
    THEN s.pieces_[lhs].size < s.pieces_[rhs].size
    ELSE s.pieces_[lhs].ptr < s.pieces_[rhs].ptr

\* a failed check at source line `line` stops the handler
Fail(s, line) == IF s.fail # 0 THEN s ELSE [s EXCEPT !.fail = line]

-----------------------------------------------------------------------------
(* std::set<Piece*, PieceCmp> as the sequence of its elements in order *)

SetEquiv(s, a, b) == ~PieceCmp(s, a, b) /\ ~PieceCmp(s, b, a)

SetHas(s, seq, p) == \E i \in 1..Len(seq) : SetEquiv(s, seq[i], p)

\* faulty variant of SetInsertPos: the element goes to the end
SetInsertPos_End(s, seq, p) == Len(seq) + 1

SetInsertPos(s, seq, p) ==
    IF \E i \in 1..Len(seq) : PieceCmp(s, p, seq[i])
    THEN CHOOSE i \in 1..Len(seq) :
            /\ PieceCmp(s, p, seq[i])
            /\ \A j \in 1..(i - 1) : ~PieceCmp(s, p, seq[j])
    ELSE Len(seq) + 1

SetInsert(s, seq, p) ==
    LET k == SetInsertPos(s, seq, p)
    IN  SubSeq(seq, 1, k - 1) \o <<p>> \o SubSeq(seq, k, Len(seq))

\* erase(key): removes the element equivalent to the key
SetEraseKey(s, seq, p) == SelectSeq(seq, LAMBDA e : ~SetEquiv(s, e, p))

\* erase(iterator)
SetEraseAt(seq, i) == SubSeq(seq, 1, i - 1) \o SubSeq(seq, i + 1, Len(seq))

-----------------------------------------------------------------------------
(* The private methods, on the record s of the members *)

\* faulty variant of InsertPiece2Bin: the Piece is filed one class too high
InsertPiece2Bin_NextBin(s, piece) ==
    IF s.fail # 0 THEN s
    ELSE IF ~(s.pieces_[piece].is_free /\ s.pieces_[piece].bin_num = kInvalidBinNum)
    THEN Fail(s, 191)
    ELSE [s EXCEPT !.pieces_[piece].bin_num =
                        Min(kBinNumSize - 1, BinNum4BinSize(s.pieces_[piece].size) + 1),
                   !.bins_[Min(kBinNumSize - 1, BinNum4BinSize(s.pieces_[piece].size) + 1)].pieces =
                        Append(@, piece)]

InsertPiece2Bin(s, piece) ==
    IF s.fail # 0 THEN s
    ELSE IF ~(s.pieces_[piece].is_free /\ s.pieces_[piece].bin_num = kInvalidBinNum)
    THEN Fail(s, 191)
    ELSE LET bin_num == BinNum4BinSize(s.pieces_[piece].size)
             s1 == [s EXCEPT !.pieces_[piece].bin_num = bin_num]
         IN  IF SetHas(s1, s1.bins_[bin_num].pieces, piece)
             THEN Fail(s1, 194)
             ELSE [s1 EXCEPT !.bins_[bin_num].pieces = SetInsert(s1, @, piece)]

RemovePieceFromBin(s, piece) ==
    IF s.fail # 0 THEN s
    ELSE IF ~s.pieces_[piece].is_free THEN Fail(s, 199)
    ELSE IF s.pieces_[piece].bin_num \notin DOMAIN s.bins_ THEN Fail(s, 200)
    ELSE [s EXCEPT !.bins_[s.pieces_[piece].bin_num].pieces = SetEraseKey(s, @, piece),
                   !.pieces_[piece].bin_num = kInvalidBinNum]

\* A write of ptr or size of the Piece (lines 214-215, 252-254, 284, 316-317).
\* PieceCmp (lines 88-93) reads both: writing them while the Piece is an
\* element of a Bin's std::set breaks the order the set relies on, after which
\* its behaviour is undefined.
KeyWrite(s, piece) ==
    IF \E n \in DOMAIN s.bins_ :
          \E i \in 1..Len(s.bins_[n].pieces) : s.bins_[n].pieces[i] = piece
    THEN [s EXCEPT !.ub = TRUE]
    ELSE s

\* faulty variant of AllocatePiece: a descriptor is made each time
AllocatePiece_AlwaysNew(s) ==
    IF s.fail # 0 THEN s
    ELSE [s EXCEPT !.pieces_ = Append(@, NewPiece),
                   !.ret = Len(s.pieces_) + 1]

\* the descriptor is returned in s.ret
AllocatePiece(s) ==
    IF s.fail # 0 THEN s
    ELSE IF s.recycle_piece_list_ # NULL
    THEN [s EXCEPT !.ret = s.recycle_piece_list_,
                   !.recycle_piece_list_ = s.pieces_[s.recycle_piece_list_].next]
    ELSE [s EXCEPT !.pieces_ = Append(@, NewPiece),
                   !.ret = Len(s.pieces_) + 1]

DeallocatePiece(s, piece) ==
    IF s.fail # 0 THEN s
    ELSE [KeyWrite(s, piece) EXCEPT
                   !.pieces_[piece] = [size |-> 0, ptr |-> NULL, is_free |-> TRUE,
                                       prev |-> NULL, next |-> s.recycle_piece_list_,
                                       bin_num |-> kInvalidBinNum],
                   !.recycle_piece_list_ = piece]

MarkPiece(s, piece) ==
    IF s.fail # 0 THEN s
    ELSE IF s.pieces_[piece].ptr \in DOMAIN s.ptr2piece_ THEN Fail(s, 229)
    ELSE [s EXCEPT !.ptr2piece_ = (s.pieces_[piece].ptr :> piece) @@ @]

\* faulty variant of UnMarkPiece: the entry stays in ptr2piece_
UnMarkPiece_Skip(s, piece) == s

UnMarkPiece(s, piece) ==
    IF s.fail # 0 THEN s
    ELSE IF s.pieces_[piece].ptr \notin DOMAIN s.ptr2piece_ THEN Fail(s, 234)
    ELSE [s EXCEPT !.ptr2piece_ =
            [a \in (DOMAIN s.ptr2piece_) \ {s.pieces_[piece].ptr} |-> s.ptr2piece_[a]]]


SetRet(s, r) == [s EXCEPT !.ret = r]

SetOk(s, b) == [s EXCEPT !.ok = b]

\* faulty variant of LinkPrev: the prev link of the Piece behind is not set
LinkPrev_Skip(s, p, q) == s

\* if (p != nullptr) { p->prev = q; }
LinkPrev(s, p, q) == IF p # NULL THEN [s EXCEPT !.pieces_[p].prev = q] ELSE s

\* faulty variant of NeedSplit: the test of kPieceSplitThreshold is left out
NeedSplit_TwiceOnly(size, aligned_size) == size >= aligned_size * 2

\* faulty variant of NeedSplit: the chosen Piece is never split
NeedSplit_Never(size, aligned_size) == FALSE

\* FindPiece line 250: the split test on the chosen Piece
NeedSplit(size, aligned_size) ==
    size >= aligned_size * 2 \/ size - aligned_size >= kPieceSplitThreshold

\* FindPiece lines 262-267, on the linked new_piece
SplitFile(s, piece, new_piece) ==
    IF ~IsAlignedSize(s.pieces_[piece].size, kCudaAlignSize) THEN Fail(s, 264)
    ELSE IF ~IsAlignedSize(s.pieces_[new_piece].size, kCudaAlignSize) THEN Fail(s, 265)
    ELSE MarkPiece(InsertPiece2Bin(s, new_piece), new_piece)

\* faulty variant of SplitLink: the chosen Piece keeps its size
SplitLink_KeepSize(a, piece, aligned_size) ==
    SplitFile(LinkPrev([a EXCEPT !.pieces_[a.ret].ptr = a.pieces_[piece].ptr + aligned_size,
                                 !.pieces_[a.ret].size = a.pieces_[piece].size - aligned_size,
                                 !.pieces_[piece].next = a.ret,
                                 !.pieces_[a.ret].prev = piece,
                                 !.pieces_[a.ret].next = a.pieces_[piece].next,
                                 !.pieces_[a.ret].is_free = TRUE,
                                 !.pieces_[a.ret].bin_num = kInvalidBinNum],
                       a.pieces_[piece].next, a.ret),
              piece, a.ret)

\* FindPiece lines 252-263, a.ret being the new_piece of line 251
SplitLink(a, piece, aligned_size) ==
    SplitFile(LinkPrev([KeyWrite(KeyWrite(a, a.ret), piece) EXCEPT
                                 !.pieces_[a.ret].ptr = a.pieces_[piece].ptr + aligned_size,
                                 !.pieces_[a.ret].size = a.pieces_[piece].size - aligned_size,
                                 !.pieces_[piece].size = aligned_size,
                                 !.pieces_[piece].next = a.ret,
                                 !.pieces_[a.ret].prev = piece,
                                 !.pieces_[a.ret].next = a.pieces_[piece].next,
                                 !.pieces_[a.ret].is_free = TRUE,
                                 !.pieces_[a.ret].bin_num = kInvalidBinNum],
                       a.pieces_[piece].next, a.ret),
              piece, a.ret)

\* FindPiece lines 251-267: carve the remainder off the chosen Piece
SplitPiece(s, piece, aligned_size) == SplitLink(AllocatePiece(s), piece, aligned_size)

\* FindPiece lines 250-269, the chosen Piece being out of its Bin
TakeSplit(s, piece, aligned_size) ==
    SetRet(IF NeedSplit(s.pieces_[piece].size, aligned_size)
           THEN SplitPiece(s, piece, aligned_size)
           ELSE s,
           piece)

\* FindPiece lines 247-269: take the Piece at position i of Bin bin_num
TakePiece(s, bin_num, i, aligned_size) ==
    TakeSplit([s EXCEPT !.bins_[bin_num].pieces = SetEraseAt(@, i),
                        !.pieces_[s.bins_[bin_num].pieces[i]].bin_num = kInvalidBinNum,
                        !.pieces_[s.bins_[bin_num].pieces[i]].is_free = FALSE],
              s.bins_[bin_num].pieces[i], aligned_size)

\* FindPiece lines 240-273: the scan, at position i of Bin bin_num
RECURSIVE ScanBins(_, _, _, _)
ScanBins(s, bin_num, i, aligned_size) ==
    IF bin_num >= kBinNumSize THEN SetRet(s, NULL)
    ELSE IF i > Len(s.bins_[bin_num].pieces) THEN ScanBins(s, bin_num + 1, 1, aligned_size)
    ELSE IF ~s.pieces_[s.bins_[bin_num].pieces[i]].is_free THEN Fail(s, 244)
    ELSE IF ~IsAlignedSize(s.pieces_[s.bins_[bin_num].pieces[i]].size, kCudaAlignSize)
         THEN Fail(s, 245)
    ELSE IF ULe(aligned_size, s.pieces_[s.bins_[bin_num].pieces[i]].size)
         THEN TakePiece(s, bin_num, i, aligned_size)
    ELSE ScanBins(s, bin_num, i + 1, aligned_size)

\* FindPiece lines 240-246 and 272-273: the scan up to the Piece that fits,
\* returned in s.ret (NULL: none), before any write
RECURSIVE ScanOnly(_, _, _, _)
ScanOnly(s, bin_num, i, aligned_size) ==
    IF bin_num >= kBinNumSize THEN SetRet(s, NULL)
    ELSE IF i > Len(s.bins_[bin_num].pieces) THEN ScanOnly(s, bin_num + 1, 1, aligned_size)
    ELSE IF ~s.pieces_[s.bins_[bin_num].pieces[i]].is_free THEN Fail(s, 244)
    ELSE IF ~IsAlignedSize(s.pieces_[s.bins_[bin_num].pieces[i]].size, kCudaAlignSize)
         THEN Fail(s, 245)
    ELSE IF ULe(aligned_size, s.pieces_[s.bins_[bin_num].pieces[i]].size)
         THEN SetRet(s, s.bins_[bin_num].pieces[i])
    ELSE ScanOnly(s, bin_num, i + 1, aligned_size)

\* the positions of piece in the Bin it names
PosInBin(s, piece) ==
    IF s.pieces_[piece].bin_num \in DOMAIN s.bins_
    THEN {i \in 1..Len(s.bins_[s.pieces_[piece].bin_num].pieces) :
            s.bins_[s.pieces_[piece].bin_num].pieces[i] = piece}
    ELSE {}

\* FindPiece lines 247-269 for the Piece the scan has stopped at.  If the
\* Piece is no longer at an iterator of its Bin, erase(it) is undefined: the
\* method is taken to go on with the Piece as it is.
TakeFound(s, piece, aligned_size) ==
    IF s.fail # 0 \/ piece = NULL THEN s
    ELSE IF PosInBin(s, piece) # {}
    THEN TakePiece(s, s.pieces_[piece].bin_num, CHOOSE i \in PosInBin(s, piece) : TRUE,
                   aligned_size)
    ELSE TakeSplit([s EXCEPT !.ub = TRUE,
                             !.pieces_[piece].bin_num = kInvalidBinNum,
                             !.pieces_[piece].is_free = FALSE],
                   piece, aligned_size)

\* faulty variant of FindPiece: the scan starts at the Bin above the Bin of
\* aligned_size
FindPiece_FromNextBin(s, aligned_size) ==
    IF s.fail # 0 THEN s
    ELSE ScanBins(s, BinNum4BinSize(aligned_size) + 1, 1, aligned_size)

\* the Piece found is returned in s.ret (NULL: none)
FindPiece(s, aligned_size) ==
    IF s.fail # 0 THEN s
    ELSE ScanBins(s, BinNum4BinSize(aligned_size), 1, aligned_size)

MergeNeighbourFreePiece(s, lhs, rhs) ==
    IF s.fail # 0 THEN s
    ELSE IF ~s.pieces_[lhs].is_free THEN Fail(s, 278)
    ELSE IF ~s.pieces_[rhs].is_free THEN Fail(s, 279)
    ELSE IF s.pieces_[lhs].next # rhs THEN Fail(s, 280)
    ELSE IF lhs # s.pieces_[rhs].prev THEN Fail(s, 281)
    ELSE IF s.pieces_[lhs].ptr + s.pieces_[lhs].size # s.pieces_[rhs].ptr THEN Fail(s, 282)
    ELSE DeallocatePiece(
            UnMarkPiece(
                LinkPrev([KeyWrite(s, lhs) EXCEPT
                                   !.pieces_[lhs].size = @ + s.pieces_[rhs].size,
                                   !.pieces_[lhs].next = s.pieces_[rhs].next],
                         s.pieces_[rhs].next, lhs),
                rhs),
            rhs)

-----------------------------------------------------------------------------
(* The substrate: cudaMalloc / cudaFree on a device of DeviceSlots granules. *)
(* dev is the set of the live device allocations [ptr, size].               *)

DeviceBases == {DevBase + k * DevGran : k \in 0..(DeviceSlots - 1)}

Overlap(p1, n1, p2, n2) == p1 < p2 + n2 /\ p2 < p1 + n1

\* the bases at which a range of `bytes` bytes is free on the device
FreeBases(d, bytes) ==
    {a \in DeviceBases :
        /\ a + bytes <= DevEnd
        /\ \A r \in d : ~Overlap(a, bytes, r.ptr, r.size)}

\* what cudaMalloc(&mem_ptr, bytes) may leave in mem_ptr: nullptr (failure), or
\* the base of a free range of the device, the lowest or the highest that fits
CudaMallocOutcomes(d, bytes) ==
    {NULL} \cup {a \in FreeBases(d, bytes) :
                    \/ \A b \in FreeBases(d, bytes) : a <= b
                    \/ \A b \in FreeBases(d, bytes) : a >= b}

\* cudaMalloc(&mem_ptr, bytes), leaving mem_ptr in mem_ptr
CudaMalloc(s, bytes, mem_ptr) ==
    [s EXCEPT !.dev = IF mem_ptr = NULL THEN @ ELSE @ \cup {[ptr |-> mem_ptr, size |-> bytes]},
              !.raw = Append(@, [f |-> "cudaMalloc", ptr |-> mem_ptr, bytes |-> bytes])]

\* the bytes of the device allocations at ptr
RECURSIVE BytesAt(_, _)
BytesAt(d, ptr) ==
    IF \A r \in d : r.ptr # ptr THEN 0
    ELSE (CHOOSE r \in d : r.ptr = ptr).size
         + BytesAt(d \ {CHOOSE r \in d : r.ptr = ptr}, ptr)

\* cudaFree(ptr); the record of the call notes the bytes given back
CudaFree(s, ptr) ==
    [s EXCEPT !.dev = {r \in @ : r.ptr # ptr},
              !.raw = Append(@, [f |-> "cudaFree", ptr |-> ptr, bytes |-> BytesAt(s.dev, ptr)])]

\* faulty variant of GrowthBytes: the Block is made as large as the request
GrowthBytes_Exact(aligned_size) == MemAlignedBytes(aligned_size, kCudaAlignSize)

\* AllocateBlockToExtendTotalMem lines 293-304: the bytes asked of cudaMalloc
GrowthBytes(aligned_size) ==
    MemAlignedBytes(IF ULt(aligned_size, 1048576) THEN 2097152
                    ELSE IF ULt(aligned_size, 10485760) THEN 20971520
                    ELSE RoundUp(aligned_size, 2097152),
                    kCudaAlignSize)

\* line 325
ExtendBlock(s, piece, mem_ptr) ==
    IF s.fail # 0 THEN s
    ELSE [s EXCEPT !.mem_ptr2block_ = IF mem_ptr \in DOMAIN @ THEN @
                                      ELSE (mem_ptr :> NewBlock(s, piece)) @@ @,
                   !.ok = TRUE]

\* lines 316-325, a.ret being the piece of line 315
ExtendPiece(a, final_allocate_bytes, mem_ptr) ==
    ExtendBlock(MarkPiece(InsertPiece2Bin([KeyWrite(a, a.ret) EXCEPT !.pieces_[a.ret] =
                                                [size |-> final_allocate_bytes, ptr |-> mem_ptr,
                                                 prev |-> NULL, next |-> NULL, is_free |-> TRUE,
                                                 bin_num |-> kInvalidBinNum]],
                                          a.ret),
                          a.ret),
                a.ret, mem_ptr)

\* faulty variant of ExtendTotalMem: the new Block is not counted
ExtendTotalMem_NoCount(s, final_allocate_bytes, mem_ptr) ==
    IF mem_ptr = NULL THEN SetOk(s, FALSE)
    ELSE ExtendPiece(AllocatePiece(s), final_allocate_bytes, mem_ptr)

\* faulty variant of ExtendTotalMem: the bytes are counted before the test of
\* mem_ptr
ExtendTotalMem_CountFirst(s, final_allocate_bytes, mem_ptr) ==
    IF mem_ptr = NULL
    THEN SetOk([s EXCEPT !.total_memory_bytes_ = @ + final_allocate_bytes], FALSE)
    ELSE ExtendPiece(AllocatePiece([s EXCEPT !.total_memory_bytes_ = @ + final_allocate_bytes]),
                     final_allocate_bytes, mem_ptr)

\* lines 310-327, after cudaMalloc
ExtendTotalMem(s, final_allocate_bytes, mem_ptr) ==
    IF mem_ptr = NULL THEN SetOk(s, FALSE)
    ELSE ExtendPiece(AllocatePiece([s EXCEPT !.total_memory_bytes_ = @ + final_allocate_bytes]),
                     final_allocate_bytes, mem_ptr)

\* mem_ptr is what cudaMalloc leaves in mem_ptr; the bool result is s.ok
AllocateBlockToExtendTotalMem(s, aligned_size, mem_ptr) ==
    IF s.fail # 0 THEN s
    ELSE IF ULt(GrowthBytes(aligned_size), aligned_size) THEN SetOk(s, FALSE)
    ELSE ExtendTotalMem(CudaMalloc(s, GrowthBytes(aligned_size), mem_ptr),
                        GrowthBytes(aligned_size), mem_ptr)

-----------------------------------------------------------------------------
(* DeallocateFreeBlockForGarbageCollection *)

\* faulty variant of AllFree: only the Piece p is looked at
AllFree_First(s, p) == p = NULL \/ s.pieces_[p].is_free

\* lines 337-344: no Piece from p on is in use
RECURSIVE AllFree(_, _)
AllFree(s, p) ==
    IF p = NULL THEN TRUE
    ELSE IF ~s.pieces_[p].is_free THEN FALSE
    ELSE AllFree(s, s.pieces_[p].next)

\* faulty variant of FreeBlockPtrs: the scan stops at the first Block found
FreeBlockPtrs_One(s) ==
    {ptr \in DOMAIN s.mem_ptr2block_ :
        /\ AllFree(s, s.mem_ptr2block_[ptr].start_piece)
        /\ \A q \in DOMAIN s.mem_ptr2block_ :
              AllFree(s, s.mem_ptr2block_[q].start_piece) => ptr <= q}

\* lines 334-350: free_block_ptrs
FreeBlockPtrs(s) ==
    {ptr \in DOMAIN s.mem_ptr2block_ : AllFree(s, s.mem_ptr2block_[ptr].start_piece)}

RECURSIVE SumBlockSize(_, _)
SumBlockSize(s, ptrs) ==
    IF ptrs = {} THEN 0
    ELSE s.mem_ptr2block_[CHOOSE x \in ptrs : TRUE].size
         + SumBlockSize(s, ptrs \ {CHOOSE x \in ptrs : TRUE})

\* lines 365-372: delete the Pieces from p on; the sum of their sizes is s.ret
RECURSIVE DeletePieces(_, _)
DeletePieces(s, p) ==
    IF s.fail # 0 \/ p = NULL THEN s
    ELSE DeletePieces(
            DeallocatePiece(
                UnMarkPiece(RemovePieceFromBin([s EXCEPT !.ret = @ + s.pieces_[p].size], p), p),
                p),
            s.pieces_[p].next)

\* lines 373-376, s.ret being piece_size_sum
EraseBlock(s, size, ptr) ==
    IF s.fail # 0 THEN s
    ELSE IF size # s.ret THEN Fail(s, 373)
    ELSE CudaFree([s EXCEPT !.mem_ptr2block_ = [a \in (DOMAIN @) \ {ptr} |-> @[a]]], ptr)

\* lines 356-376: release the Block at ptr
ReleaseBlock(s, ptr) ==
    IF s.fail # 0 THEN s
    ELSE IF ptr \notin DOMAIN s.mem_ptr2block_ THEN Fail(s, 357)
    ELSE IF s.mem_ptr2block_[ptr].ptr # s.pieces_[s.mem_ptr2block_[ptr].start_piece].ptr
         THEN Fail(s, 363)
    ELSE IF s.mem_ptr2block_[ptr].ptr # ptr THEN Fail(s, 364)
    ELSE EraseBlock(DeletePieces(SetRet(s, 0), s.mem_ptr2block_[ptr].start_piece),
                    s.mem_ptr2block_[ptr].size, ptr)

RECURSIVE ReleaseBlocks(_, _)
ReleaseBlocks(s, order) ==
    IF order = <<>> THEN s
    ELSE ReleaseBlocks(ReleaseBlock(s, Head(order)), Tail(order))

\* the orders in which a std::unordered_set of the addresses in S may be walked
Orders(S) ==
    {o \in [1..Cardinality(S) -> S] : \A i, j \in 1..Cardinality(S) : i # j => o[i] # o[j]}

\* faulty variant of ReleaseFree: total_memory_bytes_ is not brought down
ReleaseFree_KeepTotal(s, total_free_bytes, order) ==
    SetOk(IF total_free_bytes > 0 THEN ReleaseBlocks(s, order) ELSE s, total_free_bytes > 0)

\* lines 352-379
ReleaseFree(s, total_free_bytes, order) ==
    SetOk(IF total_free_bytes > 0
          THEN ReleaseBlocks([s EXCEPT !.total_memory_bytes_ = @ - total_free_bytes], order)
          ELSE s,
          total_free_bytes > 0)

\* order: the iteration order of free_block_ptrs; the bool result is s.ok
DeallocateFreeBlockForGarbageCollection(s, order) ==
    SetRet(ReleaseFree(s, SumBlockSize(s, FreeBlockPtrs(s)), order), NULL)

-----------------------------------------------------------------------------
(* The public methods *)

\* faulty variant of ReturnPiece: no check of the Piece found
ReturnPiece_NoCheck(s) ==
    IF s.fail # 0 \/ s.ret = NULL THEN s
    ELSE SetRet(s, s.pieces_[s.ret].ptr)

\* DoAllocate lines 396-398
ReturnPiece(s) ==
    IF s.fail # 0 THEN s
    ELSE IF s.ret = NULL THEN Fail(s, 396)
    ELSE SetRet(s, s.pieces_[s.ret].ptr)

\* DoAllocate line 393, g being the members after AllocateBlockToExtendTotalMem
FindAgain(g, aligned_size) ==
    IF g.fail = 0 /\ g.ok THEN FindPiece(g, aligned_size) ELSE SetRet(g, NULL)

\* the reclamation pass after a growth that failed
ReclaimOnFailure(g) ==
    IF g.fail # 0 \/ g.ok THEN g
    ELSE DeallocateFreeBlockForGarbageCollection(g, CHOOSE o \in Orders(FreeBlockPtrs(g)) : TRUE)

\* faulty variant of ExtendOnMiss: when the growth fails the reclamation pass
\* runs before the search is made again
ExtendOnMiss_Reclaim(s, aligned_size, mem_ptr) ==
    IF s.fail = 0 /\ s.ret = NULL
    THEN FindAgain(ReclaimOnFailure(AllocateBlockToExtendTotalMem(s, aligned_size, mem_ptr)),
                   aligned_size)
    ELSE s

\* faulty variant of ExtendOnMiss: the allocator grows on a hit as well
ExtendOnMiss_Always(s, aligned_size, mem_ptr) ==
    IF s.fail = 0
    THEN FindAgain(AllocateBlockToExtendTotalMem(s, aligned_size, mem_ptr), aligned_size)
    ELSE s

\* DoAllocate lines 392-394, s being the members after the first FindPiece
ExtendOnMiss(s, aligned_size, mem_ptr) ==
    IF s.fail = 0 /\ s.ret = NULL
    THEN FindAgain(AllocateBlockToExtendTotalMem(s, aligned_size, mem_ptr), aligned_size)
    ELSE s

\* faulty variant of DoAllocate: size 0 is served like any size
DoAllocate_NoZeroCheck(s, size, mem_ptr) ==
    ReturnPiece(ExtendOnMiss(FindPiece(s, MemAlignedBytes(size, kCudaAlignSize)),
                             MemAlignedBytes(size, kCudaAlignSize), mem_ptr))

\* mem_ptr: what cudaMalloc leaves in mem_ptr if it is called; the result is s.ret
DoAllocate(s, size, mem_ptr) ==
    IF size = 0 THEN SetRet(s, NULL)
    ELSE ReturnPiece(ExtendOnMiss(FindPiece(s, MemAlignedBytes(size, kCudaAlignSize)),
                                  MemAlignedBytes(size, kCudaAlignSize), mem_ptr))

\* the Piece takes over the address range of its prev neighbour
AbsorbPrev(a, piece, prev_p) ==
    IF a.fail # 0 THEN a
    ELSE [a EXCEPT !.pieces_[piece].ptr = a.pieces_[prev_p].ptr,
                   !.pieces_[piece].size = @ + a.pieces_[prev_p].size,
                   !.pieces_[piece].prev = a.pieces_[prev_p].prev]

\* faulty variant of MergePrev: the Piece freed absorbs its free prev
\* neighbour, whose descriptor is retired
MergePrev_IntoPiece(s, piece, prev_p) ==
    IF s.fail = 0 /\ prev_p # NULL /\ s.pieces_[prev_p].is_free
    THEN InsertPiece2Bin(
            MarkPiece(
                DeallocatePiece(
                    AbsorbPrev(UnMarkPiece(UnMarkPiece(RemovePieceFromBin(s, prev_p), prev_p),
                                           piece),
                               piece, prev_p),
                    prev_p),
                piece),
            piece)
    ELSE InsertPiece2Bin(s, piece)

\* faulty variant of MergePrev: the prev Piece grows while it is in its Bin
MergePrev_InBin(s, piece, prev_p) ==
    IF s.fail = 0 /\ prev_p # NULL /\ s.pieces_[prev_p].is_free
    THEN MergeNeighbourFreePiece(s, prev_p, piece)
    ELSE InsertPiece2Bin(s, piece)

\* faulty variant of MergePrev: a free prev Piece is left alone
MergePrev_Skip(s, piece, prev_p) == InsertPiece2Bin(s, piece)

\* Deallocate lines 421-426
MergePrev(s, piece, prev_p) ==
    IF s.fail = 0 /\ prev_p # NULL /\ s.pieces_[prev_p].is_free
    THEN InsertPiece2Bin(MergeNeighbourFreePiece(RemovePieceFromBin(s, prev_p), prev_p, piece),
                         prev_p)
    ELSE InsertPiece2Bin(s, piece)

\* faulty variant of MergeNext: a free next Piece is left alone
MergeNext_Skip(s, piece, next_p) == s

\* Deallocate lines 416-419
MergeNext(s, piece, next_p) ==
    IF next_p # NULL /\ s.pieces_[next_p].is_free
    THEN MergeNeighbourFreePiece(RemovePieceFromBin(s, next_p), piece, next_p)
    ELSE s

\* Deallocate lines 408-426
FreePiece(s, piece) ==
    IF s.pieces_[piece].is_free THEN Fail(s, 408)
    ELSE MergePrev(MergeNext([s EXCEPT !.pieces_[piece].is_free = TRUE],
                             piece, s.pieces_[piece].next),
                   piece, s.pieces_[piece].prev)

\* Deallocate lines 406-407 for an address that is no key of ptr2piece_:
\* find returns end() and line 407 reads through it, which is undefined.
\* `second` is what the read yields: NULL stands for a trap at line 407,
\* any other value is taken for the Piece* and the method goes on with it.
ReadEnd(s, second) ==
    IF second = NULL THEN Fail([s EXCEPT !.ub = TRUE], 407)
    ELSE FreePiece([s EXCEPT !.ub = TRUE], second)

\* faulty variant of Deallocate: nullptr is looked up like any address
Deallocate_NoNullCheck(s, mem_ptr, second) ==
    IF mem_ptr \in DOMAIN s.ptr2piece_ THEN FreePiece(s, s.ptr2piece_[mem_ptr])
    ELSE ReadEnd(s, second)

\* `second`: what it->second yields at line 407 when find has returned end()
Deallocate(s, mem_ptr, second) ==
    IF mem_ptr = NULL THEN s
    ELSE IF mem_ptr \in DOMAIN s.ptr2piece_ THEN FreePiece(s, s.ptr2piece_[mem_ptr])
    ELSE ReadEnd(s, second)

RECURSIVE FreeBlocks(_, _)
FreeBlocks(s, ptrs) ==
    IF ptrs = {} THEN s
    ELSE FreeBlocks(CudaFree(s, CHOOSE x \in ptrs : TRUE), ptrs \ {CHOOSE x \in ptrs : TRUE})

\* faulty variant of Destructor: only the Blocks without a Piece in use are
\* given back
Destructor_IdleOnly(s) ==
    IF s.total_memory_bytes_ = 0 THEN s
    ELSE FreeBlocks(s, FreeBlockPtrs(s))

\* ~CachingAllocator
Destructor(s) ==
    IF s.total_memory_bytes_ = 0 THEN s
    ELSE FreeBlocks(s, DOMAIN s.mem_ptr2block_)

-----------------------------------------------------------------------------
(* State *)

VARIABLES
    total_memory_bytes_,  \* size_t
    mem_ptr2block_,       \* address -> Block
    bins_,                \* Bin number -> Bin
    pieces_,              \* the descriptors; a Piece* is an index
    ptr2piece_,           \* address -> Piece*
    recycle_piece_list_,  \* Piece*, linked by next
    dev,                  \* the device: its live allocations
    outstanding,          \* the caller: the bag of addresses returned and not yet given back
    lastcall,             \* the last call made: op, argument, result, failed check, substrate calls
    calls,                \* the number of calls made
    threads,              \* per thread: where it is in its call, the call, the Piece* found
    mutex4guard           \* ThreadSafeLock::mutex4guard: the thread that owns it, or 0

arena == <<total_memory_bytes_, mem_ptr2block_, bins_, pieces_, ptr2piece_, recycle_piece_list_>>

vars == <<total_memory_bytes_, mem_ptr2block_, bins_, pieces_, ptr2piece_,
          recycle_piece_list_, dev, outstanding, lastcall, calls, threads, mutex4guard>>

Threads == 1..NumThreads

\* a thread that is in no call
Idle == [pc |-> "idle", op |-> "", arg |-> 0, piece |-> NULL]

\* the members at the start of a call
Members ==
    [total_memory_bytes_ |-> total_memory_bytes_, mem_ptr2block_ |-> mem_ptr2block_,
     bins_ |-> bins_, pieces_ |-> pieces_, ptr2piece_ |-> ptr2piece_,
     recycle_piece_list_ |-> recycle_piece_list_, dev |-> dev,
     raw |-> <<>>, fail |-> 0, ret |-> NULL, ok |-> FALSE, ub |-> FALSE]

\* the members at the end of the call op(arg), which computed s
Commit(s, op, arg) ==
    /\ total_memory_bytes_' = s.total_memory_bytes_
    /\ mem_ptr2block_' = s.mem_ptr2block_
    /\ bins_' = s.bins_
    /\ pieces_' = s.pieces_
    /\ ptr2piece_' = s.ptr2piece_
    /\ recycle_piece_list_' = s.recycle_piece_list_
    /\ dev' = s.dev
    /\ calls' = calls + 1
    /\ lastcall' = [op |-> op, arg |-> arg, ret |-> IF s.fail = 0 THEN s.ret ELSE NULL,
                    ok |-> s.ok, fail |-> s.fail, raw |-> s.raw, ub |-> s.ub]

\* CachingAllocator(): lines 168-177
Init ==
    /\ total_memory_bytes_ = 0
    /\ mem_ptr2block_ = <<>>
    /\ bins_ = [i \in 0..(kBinNumSize - 1) |-> [size |-> BinSize4BinNum(i), pieces |-> <<>>]]
    /\ pieces_ = <<>>
    /\ ptr2piece_ = <<>>
    /\ recycle_piece_list_ = NULL
    /\ dev = {}
    /\ outstanding = EmptyBag
    /\ calls = 0
    /\ lastcall = [op |-> "CachingAllocator", arg |-> 0, ret |-> NULL, ok |-> FALSE,
                   fail |-> 0, raw |-> <<>>, ub |-> FALSE]
    /\ threads = [t \in Threads |-> Idle]
    /\ mutex4guard = 0

\* a failed check, the destructor or undefined behaviour ends the allocator's
\* life
Running ==
    /\ lastcall.fail = 0
    /\ ~lastcall.ub
    /\ lastcall.op # "~CachingAllocator"
    /\ calls < MaxCalls

\* a call of DoAllocate with a size of S
AllocateSizes(S) ==
    /\ Running
    /\ BagCardinality(outstanding) < MaxOutstanding
    /\ \E size \in S :
         \E mem_ptr \in CudaMallocOutcomes(dev, GrowthBytes(MemAlignedBytes(size, kCudaAlignSize))) :
            /\ Commit(DoAllocate(Members, size, mem_ptr), "DoAllocate", size)
            /\ outstanding' = outstanding (+) SetToBag({lastcall'.ret} \ {NULL})
    /\ UNCHANGED <<threads, mutex4guard>>

CallDoAllocate == AllocateSizes(Sizes)

CallDeallocate ==
    /\ Running
    /\ \E mem_ptr \in {NULL} \cup DOMAIN ptr2piece_ :
            /\ Commit(Deallocate(Members, mem_ptr, NULL), "Deallocate", mem_ptr)
            /\ outstanding' = IF lastcall'.fail = 0
                              THEN outstanding (-) SetToBag({mem_ptr})
                              ELSE outstanding
    /\ UNCHANGED <<threads, mutex4guard>>

\* addresses a caller may pass that are no key of ptr2piece_: one never
\* handed out, and the address kCudaAlignSize into each Piece
UnknownAddresses ==
    ({kCudaAlignSize} \cup {a + kCudaAlignSize : a \in DOMAIN ptr2piece_})
    \ ({NULL} \cup DOMAIN ptr2piece_)

\* Deallocate of an address that is no key of ptr2piece_
CallDeallocateUnknown ==
    /\ Running
    /\ \E mem_ptr \in UnknownAddresses :
         \E second \in {NULL} \cup (1..Len(pieces_)) :
            /\ Commit(Deallocate(Members, mem_ptr, second), "Deallocate", mem_ptr)
            /\ UNCHANGED <<outstanding, threads, mutex4guard>>

\* Deallocate of the address the call before has deallocated: its Piece is
\* free, or a merge has absorbed it and the address is no key of ptr2piece_.
\* The call ends the allocator's life and may be one call more than MaxCalls.
CallDeallocateAgain ==
    /\ lastcall.fail = 0 /\ ~lastcall.ub /\ calls <= MaxCalls
    /\ lastcall.op = "Deallocate"
    /\ lastcall.arg # NULL
    /\ \E second \in {NULL} \cup (1..Len(pieces_)) :
            /\ Commit(Deallocate(Members, lastcall.arg, second), "Deallocate", lastcall.arg)
            /\ UNCHANGED <<outstanding, threads, mutex4guard>>

CallDestructor ==
    /\ Running
    /\ Commit(Destructor(Members), "~CachingAllocator", 0)
    /\ UNCHANGED <<outstanding, threads, mutex4guard>>

\* the reclamation pass, run on an explicit request between two public calls
RunGarbageCollection ==
    /\ Running
    /\ \E order \in Orders(FreeBlockPtrs(Members)) :
            /\ Commit(DeallocateFreeBlockForGarbageCollection(Members, order),
                      "DeallocateFreeBlockForGarbageCollection", 0)
            /\ UNCHANGED <<outstanding, threads, mutex4guard>>

Next == CallDoAllocate \/ CallDeallocate \/ CallDestructor

Spec == Init /\ [][Next]_vars

NextGC == CallDoAllocate \/ CallDeallocate \/ CallDestructor \/ RunGarbageCollection

SpecGC == Init /\ [][NextGC]_vars

\* the sizes around the limits of the growth tiers: the aligned sizes 512,
\* 1 MiB - 512, 1 MiB, 10 MiB - 512, 10 MiB and 10 MiB + 512
GrowthSizes == {100, 1048576 - 512, 1048576 - 511, 10485760 - 512, 10485760, 10485760 + 1}

CallDoAllocateGrowth == AllocateSizes(GrowthSizes)

NextGrowth == CallDoAllocateGrowth \/ CallDeallocate

SpecGrowth == Init /\ [][NextGrowth]_vars

\* the sizes of small requests: 100 and 4000 bytes
SmallSizes == {100, 4000}

CallDoAllocateSmall == AllocateSizes(SmallSizes)

NextSmall == CallDoAllocateSmall \/ CallDeallocate

SpecSmall == Init /\ [][NextSmall]_vars

\* requests that split a Piece: 100 and 4000 bytes leave a remainder behind
\* them, 2 MiB - 512 bytes is the whole remainder of a Block of 2 MiB after
\* a Piece of 512 bytes
SplitSizes == {100, 4000, 2097152 - 512}

CallDoAllocateSplit == AllocateSizes(SplitSizes)

NextSplit == CallDoAllocateSplit \/ CallDeallocate

SpecSplit == Init /\ [][NextSplit]_vars

\* requests around kPieceSplitThreshold: a Block of 258 MiB and, out of it
\* once it is free, 130 MiB (128 MiB are left over), 129 MiB + 512 bytes
\* (more is left over, less than the request) and 131 MiB (127 MiB)
ThresholdSizes == {258 * 1048576, 130 * 1048576, 129 * 1048576 + 512, 131 * 1048576}

CallDoAllocateThreshold == AllocateSizes(ThresholdSizes)

NextThreshold == CallDoAllocateThreshold \/ CallDeallocate

SpecThreshold == Init /\ [][NextThreshold]_vars

\* the public calls with any address as the argument of Deallocate
NextAny ==
    \/ CallDoAllocate
    \/ CallDeallocate
    \/ CallDeallocateUnknown
    \/ CallDeallocateAgain
    \/ CallDestructor

SpecAny == Init /\ [][NextAny]_vars

-----------------------------------------------------------------------------
(* CachingAllocator<ThreadSafeLock> called from NumThreads threads.  A call  *)
(* is a sequence of steps of its thread: the RAIIGuard's constructor, the   *)
(* statements under the guard (DoAllocate in two steps: the scan of        *)
(* FindPiece up to the Piece that fits, then the rest), the RAIIGuard's     *)
(* destructor at the return.                                               *)

\* the sizes the threads ask for
ThreadSizes == {0, 100, 1048576}

\* faulty variant of MutexFree: a lock that excludes nobody
MutexFree_Always(m) == TRUE

\* std::unique_lock<std::mutex>'s constructor returns once the mutex is free
MutexFree(m) == m = 0

\* faulty variant of MutexUnlocked: the guard's destructor leaves the mutex
\* locked
MutexUnlocked_Kept(m) == m

\* the mutex after std::unique_lock<std::mutex>'s destructor
MutexUnlocked(m) == 0

\* the process runs: no check has failed
ProcessRuns == lastcall.fail = 0 /\ ~lastcall.ub

\* the threads that are in a call
InCall == {t \in Threads : threads[t].pc # "idle"}

\* a thread calls DoAllocate(size): it is at line 384
BeginDoAllocate(t) ==
    /\ ProcessRuns
    /\ threads[t].pc = "idle"
    /\ calls + Cardinality(InCall) < MaxThreadCalls
    /\ BagCardinality(outstanding)
         + Cardinality({u \in Threads : threads[u].op = "DoAllocate"}) < MaxOutstanding
    /\ \E size \in ThreadSizes :
         threads' = [threads EXCEPT ![t] = [pc |-> "lock", op |-> "DoAllocate",
                                            arg |-> size, piece |-> NULL]]
    /\ UNCHANGED <<arena, dev, outstanding, lastcall, calls, mutex4guard>>

\* a thread calls Deallocate(mem_ptr) with nullptr or an address it holds, and
\* reaches line 404, or returns at line 403
BeginDeallocate(t) ==
    /\ ProcessRuns
    /\ threads[t].pc = "idle"
    /\ calls + Cardinality(InCall) < MaxThreadCalls
    /\ \E mem_ptr \in {NULL} \cup BagToSet(outstanding) :
         IF mem_ptr = NULL
         THEN /\ Commit(Deallocate(Members, NULL, NULL), "Deallocate", NULL)
              /\ UNCHANGED <<outstanding, threads, mutex4guard>>
         ELSE /\ threads' = [threads EXCEPT ![t] = [pc |-> "lock", op |-> "Deallocate",
                                                    arg |-> mem_ptr, piece |-> NULL]]
              /\ outstanding' = outstanding (-) SetToBag({mem_ptr})
              /\ UNCHANGED <<arena, dev, lastcall, calls, mutex4guard>>

\* RAIIGuard's constructor, lines 384 and 404
Lock(t) ==
    /\ ProcessRuns
    /\ threads[t].pc = "lock"
    /\ MutexFree(mutex4guard)
    /\ mutex4guard' = t
    /\ threads' = [threads EXCEPT ![t].pc = IF threads[t].op = "DoAllocate"
                                            THEN "find" ELSE "free"]
    /\ UNCHANGED <<arena, dev, outstanding, lastcall, calls>>

\* the members after DoAllocate lines 388-390 up to the Piece that fits
Found(s, size) ==
    ScanOnly(s, BinNum4BinSize(MemAlignedBytes(size, kCudaAlignSize)), 1,
             MemAlignedBytes(size, kCudaAlignSize))

\* DoAllocate lines 385-390 and FindPiece lines 240-246: return nullptr for
\* size 0, else scan the Bins for a Piece that fits
FindStep(t) ==
    /\ ProcessRuns
    /\ threads[t].pc = "find"
    /\ IF threads[t].arg = 0 \/ Found(Members, threads[t].arg).fail # 0
       THEN /\ Commit(IF threads[t].arg = 0 THEN DoAllocate(Members, 0, NULL)
                      ELSE Found(Members, threads[t].arg),
                      "DoAllocate", threads[t].arg)
            /\ threads' = [threads EXCEPT ![t].pc = "unlock"]
       ELSE /\ threads' = [threads EXCEPT ![t].pc = "take",
                                          ![t].piece = Found(Members, threads[t].arg).ret]
            /\ UNCHANGED <<arena, dev, lastcall, calls>>
    /\ UNCHANGED <<outstanding, mutex4guard>>

\* FindPiece lines 247-269 and DoAllocate lines 392-398 for the Piece found
Taken(s, size, piece, mem_ptr) ==
    ReturnPiece(ExtendOnMiss(TakeFound(s, piece, MemAlignedBytes(size, kCudaAlignSize)),
                             MemAlignedBytes(size, kCudaAlignSize), mem_ptr))

\* the rest of DoAllocate: take the Piece found, or grow and find again
TakeStep(t) ==
    /\ ProcessRuns
    /\ threads[t].pc = "take"
    /\ \E mem_ptr \in CudaMallocOutcomes(dev, GrowthBytes(MemAlignedBytes(threads[t].arg,
                                                                           kCudaAlignSize))) :
            /\ Commit(Taken(Members, threads[t].arg, threads[t].piece, mem_ptr),
                      "DoAllocate", threads[t].arg)
            /\ outstanding' = outstanding (+) SetToBag({lastcall'.ret} \ {NULL})
    /\ threads' = [threads EXCEPT ![t].pc = "unlock"]
    /\ UNCHANGED mutex4guard

\* Deallocate lines 406-426
FreeStep(t) ==
    /\ ProcessRuns
    /\ threads[t].pc = "free"
    /\ Commit(Deallocate(Members, threads[t].arg, NULL), "Deallocate", threads[t].arg)
    /\ threads' = [threads EXCEPT ![t].pc = "unlock"]
    /\ UNCHANGED <<outstanding, mutex4guard>>

\* RAIIGuard's destructor at the return, lines 386, 398 and 427
Unlock(t) ==
    /\ ProcessRuns
    /\ threads[t].pc = "unlock"
    /\ mutex4guard' = MutexUnlocked(mutex4guard)
    /\ threads' = [threads EXCEPT ![t] = Idle]
    /\ UNCHANGED <<arena, dev, outstanding, lastcall, calls>>

NextThreads ==
    \E t \in Threads :
        \/ BeginDoAllocate(t)
        \/ BeginDeallocate(t)
        \/ Lock(t)
        \/ FindStep(t)
        \/ TakeStep(t)
        \/ FreeStep(t)
        \/ Unlock(t)

SpecThreads == Init /\ [][NextThreads]_vars

\* a step of FindStep, TakeStep or FreeStep, by what it does to the thread:
\* the thread under its guard goes on to the take or to the return
RunsUnderGuard(t) ==
    /\ ProcessRuns
    /\ threads[t].pc \in {"find", "take", "free"}
    /\ \E pc \in {"take", "unlock"}, piece \in 0..Len(pieces_) :
            threads' = [threads EXCEPT ![t].pc = pc, ![t].piece = piece]

\* the mutex is granted fairly, and a thread under its guard goes on to its
\* return (the scans and walks are finite, cudaMalloc returns)
SpecThreadsFair ==
    /\ SpecThreads
    /\ \A t \in Threads :
        /\ SF_vars(Lock(t))
        /\ WF_threads(RunsUnderGuard(t))
        /\ WF_vars(Unlock(t))

-----------------------------------------------------------------------------
(* Vocabulary of the properties *)

\* no check has failed: the state is one before or after a call
Alive == lastcall.fail = 0

Descriptors == 1..Len(pieces_)

Blocks == DOMAIN mem_ptr2block_

BinNums == 0..(kBinNumSize - 1)

\* the Pieces from p on along next, at most n of them
RECURSIVE ChainFrom(_, _)
ChainFrom(p, n) ==
    IF p = NULL \/ p \notin Descriptors \/ n = 0 THEN <<>>
    ELSE <<p>> \o ChainFrom(pieces_[p].next, n - 1)

\* the physical chain of the Block at b
Chain(b) == ChainFrom(mem_ptr2block_[b].start_piece, Len(pieces_) + 1)

SeqRange(seq) == {seq[i] : i \in 1..Len(seq)}

RECURSIVE SumSizes(_)
SumSizes(seq) == IF seq = <<>> THEN 0 ELSE pieces_[Head(seq)].size + SumSizes(Tail(seq))

\* the Pieces of the live Blocks
LivePieces == UNION {SeqRange(Chain(b)) : b \in Blocks}

InUsePieces == {p \in Descriptors : ~pieces_[p].is_free}

\* the descriptors on recycle_piece_list_
Recycled == SeqRange(ChainFrom(recycle_piece_list_, Len(pieces_) + 1))

\* the number of times p is a member of the Bin b
CountIn(b, p) == Cardinality({i \in 1..Len(bins_[b].pieces) : bins_[b].pieces[i] = p})

\* the number of successful calls of f in the last call
RawCalls(f) == {i \in 1..Len(lastcall.raw) : lastcall.raw[i].f = f}

-----------------------------------------------------------------------------
(* C1..C10 *)

\* C1: the ranges [ptr, ptr + size) of the in-use Pieces are pairwise disjoint,
\* the addresses the caller holds are exactly the bases of the in-use Pieces,
\* and no address is held twice (allocate never returns an address that has
\* not been given back).
C1_NoOverlap ==
    Alive =>
        /\ \A p, q \in InUsePieces :
              p # q => ~Overlap(pieces_[p].ptr, pieces_[p].size, pieces_[q].ptr, pieces_[q].size)
        /\ BagToSet(outstanding) = {pieces_[p].ptr : p \in InUsePieces}
        /\ \A a \in BagToSet(outstanding) : CopiesIn(a, outstanding) = 1

\* three Pieces are in use at once, the last handed out by a split of a Piece
\* that an earlier deallocate had put back
C1_Witness ==
    /\ Alive
    /\ Cardinality(InUsePieces) = 3
    /\ lastcall.op = "DoAllocate"
    /\ lastcall.ret # NULL
    /\ recycle_piece_list_ # NULL

\* C2: no two Pieces adjacent in the chain of a live Block are both free.
C2_Coalesced ==
    Alive =>
        \A p \in LivePieces :
            pieces_[p].next # NULL =>
                ~(pieces_[p].is_free /\ pieces_[pieces_[p].next].is_free)

\* a deallocate has just merged the freed Piece with both neighbours: three
\* descriptors were made, and one Piece, free, is left
C2_Witness ==
    /\ Alive
    /\ lastcall.op = "Deallocate"
    /\ lastcall.arg # NULL
    /\ Len(pieces_) = 3
    /\ Cardinality(LivePieces) = 1
    /\ Cardinality(Recycled) = 2
    /\ \A p \in LivePieces : pieces_[p].is_free

\* C3: a free Piece of a live Block is a member of exactly one Bin, once, that
\* Bin is bins_[bin_num] and bin_num is BinNum4BinSize(size); an in-use Piece
\* is a member of no Bin and its bin_num is kInvalidBinNum.
C3_BinConsistency ==
    Alive =>
        \A p \in LivePieces :
            IF pieces_[p].is_free
            THEN /\ pieces_[p].bin_num = BinNum4BinSize(pieces_[p].size)
                 /\ \A b \in BinNums : CountIn(b, p) = IF b = pieces_[p].bin_num THEN 1 ELSE 0
            ELSE /\ pieces_[p].bin_num = kInvalidBinNum
                 /\ \A b \in BinNums : CountIn(b, p) = 0

\* free Pieces are filed in two Bins at least, and a Bin holds two of them
C3_Witness ==
    /\ Alive
    /\ Cardinality({b \in BinNums : bins_[b].pieces # <<>>}) >= 2
    /\ \E b \in BinNums : Len(bins_[b].pieces) >= 2
    /\ \E p \in LivePieces : ~pieces_[p].is_free

\* C4: the chain of a live Block tiles the Block: it starts at block.ptr with
\* a Piece that has no prev, each Piece ends where its next begins, next and
\* prev agree, the sizes add up to block.size and the chain has no cycle.
C4_Tiling ==
    Alive =>
        \A b \in Blocks :
            LET c == Chain(b)
            IN  /\ Len(c) >= 1
                /\ Len(c) <= Len(pieces_)
                /\ \A i, j \in 1..Len(c) : i # j => c[i] # c[j]
                /\ mem_ptr2block_[b].ptr = b
                /\ pieces_[c[1]].ptr = mem_ptr2block_[b].ptr
                /\ pieces_[c[1]].prev = NULL
                /\ pieces_[c[Len(c)]].next = NULL
                /\ \A i \in 1..(Len(c) - 1) :
                      /\ pieces_[c[i]].ptr + pieces_[c[i]].size = pieces_[c[i + 1]].ptr
                      /\ pieces_[c[i + 1]].prev = c[i]
                /\ SumSizes(c) = mem_ptr2block_[b].size

\* a Block of three Pieces, after a merge has retired a descriptor
C4_Witness ==
    /\ Alive
    /\ \E b \in Blocks : Len(Chain(b)) >= 3
    /\ recycle_piece_list_ # NULL

\* C5: ptr2piece_ has exactly one entry for each Piece of a live Block, under
\* the address of the Piece, and no other entry.
C5_AddressMap ==
    Alive =>
        /\ DOMAIN ptr2piece_ = {pieces_[p].ptr : p \in LivePieces}
        /\ \A p \in LivePieces : ptr2piece_[pieces_[p].ptr] = p

\* the map holds the Pieces of two Blocks, after a merge has dropped an entry
C5_Witness ==
    /\ Alive
    /\ Cardinality(Blocks) = 2
    /\ Cardinality(DOMAIN ptr2piece_) >= 3
    /\ recycle_piece_list_ # NULL
    /\ lastcall.op = "Deallocate"

\* C6: total_memory_bytes_ is the sum of the sizes of the Blocks of
\* mem_ptr2block_, after every call and every reclamation pass, and is 0
\* exactly when there is no Block.
C6_TotalBytes ==
    Alive =>
        /\ total_memory_bytes_ = SumBlockSize(Members, Blocks)
        /\ (total_memory_bytes_ = 0) = (Blocks = {})

\* a reclamation pass has just released a Block and left another
C6_Witness ==
    /\ Alive
    /\ lastcall.op = "DeallocateFreeBlockForGarbageCollection"
    /\ lastcall.ok
    /\ Blocks # {}
    /\ total_memory_bytes_ > 0

\* C7: allocate of size 0 returns nullptr, changes no member and makes no
\* substrate call.
C7_ZeroSizeNoOp ==
    [][(calls' # calls /\ lastcall'.op = "DoAllocate" /\ lastcall'.arg = 0) =>
          /\ lastcall'.ret = NULL
          /\ lastcall'.fail = 0
          /\ lastcall'.raw = <<>>
          /\ arena' = arena
          /\ dev' = dev
          /\ outstanding' = outstanding]_vars

\* allocate of size 0 was called on an allocator holding Blocks and Pieces
C7_Witness ==
    /\ lastcall.op = "DoAllocate"
    /\ lastcall.arg = 0
    /\ Blocks # {}
    /\ InUsePieces # {}
    /\ \E b \in BinNums : bins_[b].pieces # <<>>

\* C8: deallocate of nullptr returns and changes no member.
C8_NullDeallocNoOp ==
    [][(calls' # calls /\ lastcall'.op = "Deallocate" /\ lastcall'.arg = NULL) =>
          /\ lastcall'.fail = 0
          /\ lastcall'.raw = <<>>
          /\ arena' = arena
          /\ dev' = dev
          /\ outstanding' = outstanding]_vars

\* deallocate of nullptr was called on an allocator holding Blocks and Pieces
C8_Witness ==
    /\ lastcall.op = "Deallocate"
    /\ lastcall.arg = NULL
    /\ Blocks # {}
    /\ InUsePieces # {}
    /\ \E b \in BinNums : bins_[b].pieces # <<>>

C10_ReclaimBeforeOOM ==
    (lastcall.op = "DoAllocate" /\ lastcall.fail = 396) =>
        /\ Cardinality(RawCalls("cudaMalloc")) = 2
        /\ FreeBlockPtrs(Members) = {}

-----------------------------------------------------------------------------
(* C11..C20 *)

\* C11: deallocate of an address that is not nullptr and not the base address
\* of a Piece of the arena ends with a failure and leaves every member and the
\* device as they were.
C11_UnknownAddressFailsFast ==
    [][(/\ calls' # calls
        /\ lastcall'.op = "Deallocate"
        /\ lastcall'.arg # NULL
        /\ lastcall'.arg \notin DOMAIN ptr2piece_) =>
          /\ lastcall'.fail # 0
          /\ arena' = arena
          /\ dev' = dev]_vars

\* C12: a deallocate of the address the call before has deallocated ends with
\* a failure and leaves every member as it was, whether the Piece is still
\* there, free, or a merge into the Piece before it has dropped its address.
C12_DoubleFreeFailsFast ==
    [][(/\ lastcall.op = "Deallocate"
        /\ lastcall.arg # NULL
        /\ lastcall.fail = 0
        /\ calls' # calls
        /\ lastcall'.op = "Deallocate"
        /\ lastcall'.arg = lastcall.arg) =>
          /\ lastcall'.fail # 0
          /\ arena' = arena
          /\ dev' = dev]_vars

\* the last call was an allocate whose growth attempt failed: cudaMalloc left
\* nullptr, or the size to ask for, rounded, came out below aligned_size and
\* cudaMalloc was not called
GrowthFailed(lc) ==
    /\ lc.op = "DoAllocate"
    /\ \/ \E i \in 1..Len(lc.raw) : lc.raw[i].f = "cudaMalloc" /\ lc.raw[i].ptr = NULL
       \/ /\ lc.raw = <<>>
          /\ lc.fail = 396
          /\ ULt(GrowthBytes(MemAlignedBytes(lc.arg, kCudaAlignSize)),
                 MemAlignedBytes(lc.arg, kCudaAlignSize))

\* C13: an allocate whose growth attempt fails leaves every member and the
\* device as they were before the call.
C13_FailedGrowthNoChange ==
    [][(calls' # calls /\ GrowthFailed(lastcall')) =>
          /\ arena' = arena
          /\ dev' = dev
          /\ outstanding' = outstanding]_vars

\* cudaMalloc has left nullptr in an allocate on an arena with a Block, Pieces
\* in use and free, and a retired descriptor
C13_Witness ==
    /\ GrowthFailed(lastcall)
    /\ lastcall.raw # <<>>
    /\ Blocks # {}
    /\ InUsePieces # {}
    /\ recycle_piece_list_ # NULL
    /\ \E b \in BinNums : bins_[b].pieces # <<>>

\* a thread is under its RAIIGuard
InCS(t) == threads[t].pc \in {"find", "take", "free", "unlock"}

\* C14: a thread is between the constructor and the destructor of its guard
\* exactly when it owns the mutex, so no two threads are there together and a
\* thread that has returned owns nothing; a step that reads or writes the
\* members is a step of the thread that owns the mutex.
C14_LockDiscipline ==
    /\ [](\A t \in Threads : InCS(t) <=> mutex4guard = t)
    /\ [][/\ \A t \in Threads :
              (threads[t].pc \in {"find", "take", "free"} /\ threads'[t] # threads[t]) =>
                  mutex4guard = t
          /\ (arena' # arena \/ dev' # dev) =>
                  \E t \in Threads :
                      /\ mutex4guard = t
                      /\ threads[t].pc \in {"take", "free"}
                      /\ threads'[t].pc = "unlock"]_vars

\* a thread has split a Piece under its guard while the other waits for the
\* mutex with a Deallocate
C14_Witness ==
    /\ \E t \in Threads : threads[t].pc = "unlock" /\ threads[t].op = "DoAllocate"
    /\ \E t \in Threads : threads[t].pc = "lock" /\ threads[t].op = "Deallocate"
    /\ lastcall.op = "DoAllocate"
    /\ lastcall.ret # NULL
    /\ Len(pieces_) >= 3

\* the members of the record r
ArenaOf(r) ==
    <<r.total_memory_bytes_, r.mem_ptr2block_, r.bins_, r.pieces_, r.ptr2piece_,
      r.recycle_piece_list_>>

\* this step leaves the members, the device and the result as the call that
\* computes r from the members before the step does
StepOf(r) ==
    /\ arena' = ArenaOf(r)
    /\ dev' = r.dev
    /\ lastcall'.fail = r.fail
    /\ lastcall'.ret = (IF r.fail = 0 THEN r.ret ELSE NULL)

\* the addresses the threads hold or are about to give back
Held ==
    BagToSet(outstanding)
        \cup {threads[t].arg : t \in {u \in Threads : /\ threads[u].op = "Deallocate"
                                                      /\ threads[u].pc \in {"lock", "free"}}}

\* C15: the calls of the threads take effect one at a time, each as the same
\* call made alone on the members it finds (a sequential order of the calls);
\* whenever the mutex is free the Pieces in use are pairwise disjoint, no
\* address is held twice, the addresses held are the bases of the Pieces in
\* use, and the chains, Bins, maps and total are consistent.
C15_Linearizable ==
    /\ [][calls' # calls =>
            \/ /\ lastcall'.op = "DoAllocate"
               /\ \E mem_ptr \in CudaMallocOutcomes(
                                    dev, GrowthBytes(MemAlignedBytes(lastcall'.arg,
                                                                     kCudaAlignSize))) :
                      StepOf(DoAllocate(Members, lastcall'.arg, mem_ptr))
            \/ /\ lastcall'.op = "Deallocate"
               /\ StepOf(Deallocate(Members, lastcall'.arg, NULL))]_vars
    /\ []((mutex4guard = 0 /\ Alive) =>
            /\ \A p, q \in InUsePieces :
                  p # q => ~Overlap(pieces_[p].ptr, pieces_[p].size,
                                    pieces_[q].ptr, pieces_[q].size)
            /\ \A a \in BagToSet(outstanding) : CopiesIn(a, outstanding) = 1
            /\ Held = {pieces_[p].ptr : p \in InUsePieces}
            /\ C2_Coalesced /\ C3_BinConsistency /\ C4_Tiling /\ C5_AddressMap
            /\ C6_TotalBytes)

\* a DoAllocate of one thread has returned a second address, carved from the
\* Block of the first, while the other thread is in a DoAllocate of its own
C15_Witness ==
    /\ \E t, u \in Threads :
          /\ t # u
          /\ threads[t].pc = "unlock" /\ threads[t].op = "DoAllocate"
          /\ threads[u].pc = "lock" /\ threads[u].op = "DoAllocate"
    /\ lastcall.op = "DoAllocate"
    /\ lastcall.ret # NULL
    /\ lastcall.raw = <<>>
    /\ BagCardinality(outstanding) = 2

\* C16: under a fair mutex, a thread that is in a call gets out of it: the
\* call returns, or a check fails and ends the process.  No thread waits for
\* ever, so no deadlock is reachable.
C16_CallsComplete ==
    \A t \in Threads :
        (threads[t].pc # "idle") ~> (threads[t].pc = "idle" \/ ~ProcessRuns)

\* a thread waits for the mutex while the other is under its guard, in a
\* Deallocate that has merged Pieces
C16_Witness ==
    /\ ProcessRuns
    /\ \E t, u \in Threads :
          /\ threads[t].pc = "lock"
          /\ threads[u].pc = "unlock" /\ threads[u].op = "Deallocate"
          /\ mutex4guard = u
    /\ recycle_piece_list_ # NULL

\* the size of the growth policy for aligned_size, in MiB
TierBytes(aligned_size) ==
    IF ULt(aligned_size, 1048576) THEN 2 * 1048576
    ELSE IF ULt(aligned_size, 10 * 1048576) THEN 20 * 1048576
    ELSE aligned_size + ((2 * 1048576 - (aligned_size % (2 * 1048576))) % (2 * 1048576))

ReclaimAfterFree ==
    (/\ calls = 2
     /\ lastcall.op = "Deallocate" /\ lastcall.arg # NULL /\ lastcall.fail = 0
     /\ calls' = 3
     /\ lastcall'.op = "DeallocateFreeBlockForGarbageCollection") =>
        /\ lastcall'.fail = 0
        /\ lastcall'.ok
        /\ DOMAIN mem_ptr2block_' = {}
        /\ total_memory_bytes_' = 0
        /\ dev' = {}
        /\ DOMAIN ptr2piece_' = {}

\* Scenario B, its first half: allocate(1 MiB) on the new allocator has made
\* one Block, of `bytes` bytes
FirstBlockOf1MiB(bytes) ==
    (calls = 1 /\ lastcall.op = "DoAllocate" /\ lastcall.arg = 1048576 /\ lastcall.fail = 0) =>
        /\ Cardinality(Blocks) = 1
        /\ \A b \in Blocks : mem_ptr2block_[b].size = bytes
        /\ total_memory_bytes_ = bytes

\* C18, as the code has it: on a new allocator allocate(1 MiB) makes a Block
\* of 20 MiB (aligned_size is not below 1 MiB); once the address is given
\* back and the reclamation pass is run, the Block is released and
\* total_memory_bytes_ is 0.
C18_ScenarioB_20MiB == [](FirstBlockOf1MiB(20 * 1048576)) /\ [][ReclaimAfterFree]_vars

\* the reclamation pass, third call, has given back a device allocation of
\* 20 MiB and left nothing
C18_Witness ==
    /\ calls = 3
    /\ lastcall.op = "DeallocateFreeBlockForGarbageCollection"
    /\ lastcall.ok
    /\ \E i \in RawCalls("cudaFree") : lastcall.raw[i].bytes = 20 * 1048576
    /\ Blocks = {}
    /\ total_memory_bytes_ = 0

\* C18 as stated: on a new allocator allocate(1 MiB) makes a Block of 2 MiB;
\* once the address is given back and the reclamation pass is run, the Block
\* is released and total_memory_bytes_ is 0.
C18_ScenarioB_2MiB == [](FirstBlockOf1MiB(2 * 1048576)) /\ [][ReclaimAfterFree]_vars

\* Scenario A after its third call: allocate(100) and allocate(4000) have
\* been served, in this order, and the first address has been given back.
\* Its Piece, of 512 bytes, is free and the Piece of 4096 bytes is in use (in
\* the other order the Piece given back would have merged with the free
\* Piece behind it).
ScenarioA3 ==
    /\ calls = 3
    /\ lastcall.op = "Deallocate" /\ lastcall.fail = 0
    /\ lastcall.arg \in DOMAIN ptr2piece_
    /\ pieces_[ptr2piece_[lastcall.arg]].is_free
    /\ pieces_[ptr2piece_[lastcall.arg]].size = 512
    /\ BagCardinality(outstanding) = 1
    /\ \E p \in InUsePieces : pieces_[p].size = 4096

\* C19: in Scenario A the allocate(100) that follows returns the base of a
\* Piece that was free, calls neither cudaMalloc nor cudaFree, and leaves the
\* Blocks, total_memory_bytes_ and the device as they were.
C19_ScenarioA ==
    [][(ScenarioA3 /\ calls' = 4 /\ lastcall'.op = "DoAllocate" /\ lastcall'.arg = 100) =>
          /\ lastcall'.fail = 0
          /\ lastcall'.raw = <<>>
          /\ lastcall'.ret \in {pieces_[p].ptr : p \in {q \in LivePieces : pieces_[q].is_free}}
          /\ mem_ptr2block_' = mem_ptr2block_
          /\ total_memory_bytes_' = total_memory_bytes_
          /\ dev' = dev]_vars

\* the fourth call of Scenario A has returned the address given back: the
\* Pieces of 512 and 4096 bytes are in use in the one Block of 2 MiB
C19_Witness ==
    /\ calls = 4
    /\ lastcall.op = "DoAllocate" /\ lastcall.arg = 100 /\ lastcall.fail = 0
    /\ lastcall.ret \in Blocks
    /\ Cardinality(Blocks) = 1
    /\ total_memory_bytes_ = 2097152
    /\ Len(pieces_) = 3
    /\ {pieces_[p].size : p \in InUsePieces} = {512, 4096}
    /\ pieces_[ptr2piece_[lastcall.ret]].next \in InUsePieces

\* Scenario C after its third call: two requests have been served from the
\* one Block, the second from the Piece the first split left behind it, and
\* one of the two addresses has been given back
ScenarioC3 ==
    /\ calls = 3
    /\ lastcall.op = "Deallocate" /\ lastcall.fail = 0 /\ lastcall.arg # NULL
    /\ BagCardinality(outstanding) = 1
    /\ Cardinality(Blocks) = 1

\* the Block at b is one free Piece with the base and the size of the Block,
\* the only member of the Bin of that size
OnePieceAgain(b) ==
    LET p == mem_ptr2block_[b].start_piece
    IN  /\ LivePieces = {p}
        /\ pieces_[p].is_free
        /\ pieces_[p].ptr = mem_ptr2block_[b].ptr
        /\ pieces_[p].size = mem_ptr2block_[b].size
        /\ pieces_[p].prev = NULL /\ pieces_[p].next = NULL
        /\ pieces_[p].bin_num = BinNum4BinSize(pieces_[p].size)
        /\ \A n \in BinNums :
              bins_[n].pieces = IF n = pieces_[p].bin_num THEN <<p>> ELSE <<>>
        /\ DOMAIN ptr2piece_ = {pieces_[p].ptr}

\* C20: in Scenario C giving back the other address, whichever of the two it
\* is, leaves one free Piece with the base and the size of the Piece the
\* Block began with, filed in the Bin of that size.
C20_ScenarioC ==
    [][(ScenarioC3 /\ calls' = 4 /\ lastcall'.op = "Deallocate"
           /\ lastcall'.arg \in BagToSet(outstanding)) =>
          /\ lastcall'.fail = 0
          /\ mem_ptr2block_' = mem_ptr2block_
          /\ \A b \in Blocks : OnePieceAgain(b)']_vars

\* the Block of 2 MiB was split once, into Pieces of 512 and 2 MiB - 512
\* bytes; both were handed out and the first was given back last
C20_Witness ==
    /\ calls = 4
    /\ lastcall.op = "Deallocate" /\ lastcall.fail = 0
    /\ lastcall.arg \in Blocks
    /\ Len(pieces_) = 2
    /\ total_memory_bytes_ = 2097152
    /\ outstanding = EmptyBag
    /\ \A b \in Blocks : OnePieceAgain(b)

\* as C20_Witness, the second address given back last
C20_WitnessOtherOrder ==
    /\ calls = 4
    /\ lastcall.op = "Deallocate" /\ lastcall.fail = 0
    /\ lastcall.arg \notin Blocks \cup {NULL}
    /\ Len(pieces_) = 2
    /\ total_memory_bytes_ = 2097152
    /\ outstanding = EmptyBag
    /\ \A b \in Blocks : OnePieceAgain(b)

-----------------------------------------------------------------------------
(* C21..C30 *)

\* a step that is the call op
IsCall(op) == calls' = calls + 1 /\ lastcall'.op = op

\* C21: a reclamation pass run when the caller holds no address (every
\* address DoAllocate returned has been given back once) releases every
\* Block: it leaves total_memory_bytes_ = 0, no Block, empty Bins, an empty
\* ptr2piece_ and nothing allocated on the device, and it returns true iff
\* there was a Block.
C21_RoundTrip ==
    [][(IsCall("DeallocateFreeBlockForGarbageCollection") /\ outstanding = EmptyBag) =>
          /\ lastcall'.fail = 0
          /\ total_memory_bytes_' = 0
          /\ DOMAIN mem_ptr2block_' = {}
          /\ \A b \in BinNums : bins_'[b].pieces = <<>>
          /\ DOMAIN ptr2piece_' = {}
          /\ dev' = {}
          /\ lastcall'.ok = (Blocks # {})
          /\ {lastcall'.raw[i].ptr : i \in 1..Len(lastcall'.raw)} = Blocks
          /\ Len(lastcall'.raw) = Cardinality(Blocks)]_vars

\* the pass has run after two allocates and the deallocates of their two
\* addresses, and has released two Blocks, one of them split and merged again
C21_Witness ==
    /\ calls = 5
    /\ lastcall.op = "DeallocateFreeBlockForGarbageCollection"
    /\ lastcall.ok
    /\ Cardinality(RawCalls("cudaFree")) = 2
    /\ outstanding = EmptyBag
    /\ Blocks = {}
    /\ total_memory_bytes_ = 0
    /\ Len(pieces_) >= 3

\* the device allocations that are the Blocks of mem_ptr2block_
BlocksOnDevice == {[ptr |-> b, size |-> mem_ptr2block_[b].size] : b \in Blocks}

\* every call of cudaFree of the last call gave back a live device allocation
FreesLive == \A i \in RawCalls("cudaFree") : lastcall.raw[i].bytes > 0

\* the destructor calls cudaFree once for each Block, whatever its Pieces,
\* and for nothing else
TeardownFreesBlocks ==
    IsCall("~CachingAllocator") =>
        /\ lastcall'.fail = 0
        /\ Len(lastcall'.raw) = Cardinality(Blocks)
        /\ \A i \in 1..Len(lastcall'.raw) : lastcall'.raw[i].f = "cudaFree"
        /\ {[ptr |-> lastcall'.raw[i].ptr, size |-> lastcall'.raw[i].bytes] :
                i \in 1..Len(lastcall'.raw)} = BlocksOnDevice
        /\ dev' = {}

\* C22: the destructor gives back every Block still held, with or without
\* Pieces in use, once, and nothing else.  Until then the live device
\* allocations are exactly the Blocks held, and every cudaFree, of the
\* reclamation pass or of the destructor, gives back a live allocation: each
\* allocation is freed once, none twice, none is left after the destructor.
C22_Teardown ==
    /\ []((Alive /\ lastcall.op # "~CachingAllocator") => dev = BlocksOnDevice)
    /\ []FreesLive
    /\ [][TeardownFreesBlocks]_vars

\* the destructor has given back two Blocks, one with a Piece in use and one
\* whose Pieces are all free
C22_Witness ==
    /\ lastcall.op = "~CachingAllocator"
    /\ Cardinality(RawCalls("cudaFree")) = 2
    /\ dev = {}
    /\ \E b \in Blocks : \E p \in SeqRange(Chain(b)) : ~pieces_[p].is_free
    /\ \E b \in Blocks : \A p \in SeqRange(Chain(b)) : pieces_[p].is_free

\* the Pieces filed in the Bins from BinNum4BinSize(aligned_size) up that are
\* large enough for aligned_size
Fits(aligned_size) ==
    {p \in Descriptors :
        /\ ULe(aligned_size, pieces_[p].size)
        /\ \E b \in BinNums :
              /\ b >= BinNum4BinSize(aligned_size)
              /\ \E i \in 1..Len(bins_[b].pieces) : bins_[b].pieces[i] = p}

\* C23: Deallocate makes no substrate call; DoAllocate makes none when a
\* Piece of the Bins fits (split or not), never calls cudaFree, and calls
\* cudaMalloc, once, only when no Piece of the Bins fits.
C23_SubstrateOnGrowthOnly ==
    [][/\ IsCall("Deallocate") => (lastcall'.raw = <<>> /\ dev' = dev)
       /\ IsCall("DoAllocate") =>
             /\ \A i \in 1..Len(lastcall'.raw) : lastcall'.raw[i].f = "cudaMalloc"
             /\ Len(lastcall'.raw) <= 1
             /\ (lastcall'.arg # 0 /\ Fits(MemAlignedBytes(lastcall'.arg, kCudaAlignSize)) # {})
                    => (lastcall'.raw = <<>> /\ dev' = dev)
             /\ lastcall'.raw # <<>> =>
                    (lastcall'.arg # 0 /\ Fits(MemAlignedBytes(lastcall'.arg, kCudaAlignSize)) = {})]_vars

\* a DoAllocate has been served by a split of a Piece of the Bins, after a
\* Deallocate that merged, with one Block as before and no substrate call
C23_Witness ==
    /\ lastcall.op = "DoAllocate"
    /\ lastcall.fail = 0
    /\ lastcall.ret # NULL
    /\ lastcall.raw = <<>>
    /\ Cardinality(Blocks) = 1
    /\ Cardinality(LivePieces) = 3
    /\ recycle_piece_list_ # NULL

\* the Blocks whose Pieces are all free, and their Pieces
IdleBlocks == {b \in Blocks : \A p \in SeqRange(Chain(b)) : pieces_[p].is_free}

IdlePieces == UNION {SeqRange(Chain(b)) : b \in IdleBlocks}

\* C24: the reclamation pass releases the idle Blocks and nothing else.  For
\* each of them cudaFree is called, the Block leaves mem_ptr2block_, its size
\* leaves total_memory_bytes_, and each of its Pieces leaves its Bin and
\* ptr2piece_ and goes to recycle_piece_list_.  The other Blocks, their
\* Pieces, the order of these in the Bins and their entries of ptr2piece_ are
\* as before.  The pass returns true iff a Block was idle.
C24_ReclaimExactlyIdle ==
    [][IsCall("DeallocateFreeBlockForGarbageCollection") =>
          /\ lastcall'.fail = 0
          /\ lastcall'.ok = (IdleBlocks # {})
          /\ Len(lastcall'.raw) = Cardinality(IdleBlocks)
          /\ {[f |-> lastcall'.raw[i].f, ptr |-> lastcall'.raw[i].ptr] :
                  i \in 1..Len(lastcall'.raw)}
                = {[f |-> "cudaFree", ptr |-> b] : b \in IdleBlocks}
          /\ DOMAIN mem_ptr2block_' = Blocks \ IdleBlocks
          /\ \A b \in Blocks \ IdleBlocks : mem_ptr2block_'[b] = mem_ptr2block_[b]
          /\ total_memory_bytes_' = total_memory_bytes_ - SumBlockSize(Members, IdleBlocks)
          /\ \A p \in IdlePieces : p \in Recycled'
          /\ \A n \in BinNums :
                bins_'[n].pieces = SelectSeq(bins_[n].pieces, LAMBDA p : p \notin IdlePieces)
          /\ DOMAIN ptr2piece_' = DOMAIN ptr2piece_ \ {pieces_[p].ptr : p \in IdlePieces}
          /\ \A a \in DOMAIN ptr2piece_' : ptr2piece_'[a] = ptr2piece_[a]
          /\ \A p \in LivePieces \ IdlePieces : pieces_'[p] = pieces_[p]
          /\ LivePieces' = LivePieces \ IdlePieces]_vars

\* the pass has released one Block and left another, which has a Piece in
\* use and a free Piece in a Bin
C24_Witness ==
    /\ lastcall.op = "DeallocateFreeBlockForGarbageCollection"
    /\ lastcall.ok
    /\ Cardinality(RawCalls("cudaFree")) = 1
    /\ Cardinality(Blocks) = 1
    /\ InUsePieces # {}
    /\ \E p \in LivePieces : pieces_[p].is_free /\ CountIn(pieces_[p].bin_num, p) = 1

\* the pass has found no idle Block, has returned false and changed nothing
C24_WitnessNothingIdle ==
    /\ lastcall.op = "DeallocateFreeBlockForGarbageCollection"
    /\ ~lastcall.ok
    /\ lastcall.raw = <<>>
    /\ Cardinality(Blocks) = 2

\* p comes before q in the order of the search: by Bin, then by size, then
\* by address
SearchedBefore(p, q) ==
    \/ pieces_[p].bin_num < pieces_[q].bin_num
    \/ /\ pieces_[p].bin_num = pieces_[q].bin_num
       /\ \/ pieces_[p].size < pieces_[q].size
          \/ pieces_[p].size = pieces_[q].size /\ pieces_[p].ptr < pieces_[q].ptr

\* each Bin holds its Pieces by size, then by address
BinsInOrder ==
    \A n \in BinNums :
        \A i \in 1..(Len(bins_[n].pieces) - 1) :
            SearchedBefore(bins_[n].pieces[i], bins_[n].pieces[i + 1])

\* the step has taken p, the first of the Pieces F in the order of the
\* search, and has left the others as they were
TakesFirstOf(F, p) ==
    /\ \A q \in F \ {p} : SearchedBefore(p, q)
    /\ ~pieces_'[p].is_free
    /\ pieces_'[p].ptr = pieces_[p].ptr
    /\ lastcall'.fail = 0 => lastcall'.ret = pieces_[p].ptr
    /\ \A q \in F \ {p} : pieces_'[q] = pieces_[q]

\* the search of a DoAllocate step takes the first Piece that fits, and, when
\* none fits, the call goes on to grow
SearchTakesFirstFit ==
    (IsCall("DoAllocate") /\ lastcall'.arg # 0) =>
        \E F \in {Fits(MemAlignedBytes(lastcall'.arg, kCudaAlignSize))} :
            IF F # {}
            THEN \E p \in F : TakesFirstOf(F, p)
            ELSE lastcall'.raw # <<>> \/ lastcall'.fail = 396

\* C25: FindPiece goes through the Bins from BinNum4BinSize(aligned_size) up
\* and through each Bin by size, then by address, and takes the first Piece
\* of at least aligned_size; it finds none only if no Piece of these Bins is
\* that large.
C25_SearchOrder == [](Alive => BinsInOrder) /\ [][SearchTakesFirstFit]_vars

\* DoAllocate has taken, whole, a Piece of a Bin that held a second Piece of
\* the same size at a higher address, which is still there, and has left a
\* larger Piece in a higher Bin
C25_Witness ==
    /\ lastcall.op = "DoAllocate" /\ lastcall.fail = 0 /\ lastcall.raw = <<>>
    /\ lastcall.ret \in DOMAIN ptr2piece_
    /\ \E q \in LivePieces :
          /\ pieces_[q].is_free
          /\ pieces_[q].size = pieces_[ptr2piece_[lastcall.ret]].size
          /\ pieces_[q].ptr > lastcall.ret
    /\ \E q \in LivePieces :
          /\ pieces_[q].is_free
          /\ pieces_[q].size > pieces_[ptr2piece_[lastcall.ret]].size

\* the Piece p, of `size` bytes with next_p behind it, was chosen for
\* aligned_size and has been split: p has aligned_size bytes, and behind it
\* a new free Piece holds the rest, linked, filed in the Bin of its size and
\* entered in ptr2piece_
HasSplit(p, size, next_p, aligned_size) ==
    /\ pieces_'[p].size = aligned_size
    /\ pieces_'[p].next \notin LivePieces \cup {NULL, p}
    /\ \E n \in {pieces_'[p].next} :
          /\ pieces_'[n].ptr = pieces_'[p].ptr + aligned_size
          /\ pieces_'[n].size = size - aligned_size
          /\ pieces_'[n].is_free
          /\ pieces_'[n].prev = p
          /\ pieces_'[n].next = next_p
          /\ next_p # NULL => pieces_'[next_p].prev = n
          /\ pieces_'[n].bin_num = BinNum4BinSize(size - aligned_size)
          /\ \E i \in 1..Len(bins_'[pieces_'[n].bin_num].pieces) :
                bins_'[pieces_'[n].bin_num].pieces[i] = n
          /\ pieces_'[n].ptr \in DOMAIN ptr2piece_'
          /\ ptr2piece_'[pieces_'[n].ptr] = n
          /\ LivePieces' = LivePieces \cup {p, n}

\* the Piece p has been handed out as it was, and no Piece was made
HandedOutWhole(p, size, next_p) ==
    /\ pieces_'[p].size = size
    /\ pieces_'[p].next = next_p
    /\ LivePieces' = LivePieces \cup {p}

\* A DoAllocate step that returns an address.  The Piece chosen is the one at
\* that address: a Piece of the Bins, or the Piece of the Block the call has
\* made.  It is split iff what is left of it is at least aligned_size, or
\* reaches `reach`.
SplitStep(reach) ==
    (IsCall("DoAllocate") /\ lastcall'.fail = 0 /\ lastcall'.ret # NULL) =>
        \E aligned_size \in {MemAlignedBytes(lastcall'.arg, kCudaAlignSize)} :
        \E p \in {ptr2piece_'[lastcall'.ret]} :
        \E size \in {IF lastcall'.raw = <<>> THEN pieces_[p].size ELSE lastcall'.raw[1].bytes} :
        \E next_p \in {IF lastcall'.raw = <<>> THEN pieces_[p].next ELSE NULL} :
            /\ ~pieces_'[p].is_free
            /\ pieces_'[p].bin_num = kInvalidBinNum
            /\ IF size - aligned_size >= aligned_size \/ size - aligned_size >= reach
               THEN HasSplit(p, size, next_p, aligned_size)
               ELSE HandedOutWhole(p, size, next_p)

\* C26, as the code has it: the chosen Piece is split iff its leftover
\* (size - aligned_size) is at least aligned_size or at least
\* kPieceSplitThreshold (128 MiB).  On a split the chosen Piece shrinks to
\* aligned_size and a new free Piece of the leftover size is made at
\* ptr + aligned_size, linked right behind it, filed in the Bin of its size
\* and entered in ptr2piece_; otherwise the Piece is handed out whole, its
\* size unchanged, and no Piece is made.
C26_SplitAtLeastThreshold == [][SplitStep(kPieceSplitThreshold)]_vars

\* a Piece of 258 MiB was chosen for 130 MiB and split: exactly
\* kPieceSplitThreshold bytes, less than the request, are left behind it
C26_Witness ==
    /\ lastcall.op = "DoAllocate" /\ lastcall.fail = 0 /\ lastcall.raw = <<>>
    /\ lastcall.arg = 130 * 1048576
    /\ lastcall.ret \in DOMAIN ptr2piece_
    /\ pieces_[ptr2piece_[lastcall.ret]].size = 130 * 1048576
    /\ pieces_[ptr2piece_[lastcall.ret]].next # NULL
    /\ pieces_[pieces_[ptr2piece_[lastcall.ret]].next].size = kPieceSplitThreshold
    /\ pieces_[pieces_[ptr2piece_[lastcall.ret]].next].is_free

\* C26 as stated: the chosen Piece is split iff its leftover is at least
\* aligned_size or exceeds the threshold of 128 MiB (a leftover of exactly
\* 128 MiB, less than aligned_size, is handed out with the Piece).
C26_SplitAboveThreshold == [][SplitStep(kPieceSplitThreshold + 1)]_vars

\* a Piece of 258 MiB was chosen for 131 MiB and handed out whole: 127 MiB
\* would have been left
C26_WitnessWhole ==
    /\ lastcall.op = "DoAllocate" /\ lastcall.fail = 0 /\ lastcall.raw = <<>>
    /\ lastcall.arg = 131 * 1048576
    /\ lastcall.ret \in DOMAIN ptr2piece_
    /\ pieces_[ptr2piece_[lastcall.ret]].size = 258 * 1048576

\* a Piece of 258 MiB was chosen for 129 MiB + 512 bytes and split: more than
\* kPieceSplitThreshold bytes, less than the request, are left behind it
C26_WitnessAbove ==
    /\ lastcall.op = "DoAllocate" /\ lastcall.fail = 0 /\ lastcall.raw = <<>>
    /\ lastcall.arg = 129 * 1048576 + 512
    /\ lastcall.ret \in DOMAIN ptr2piece_
    /\ pieces_[ptr2piece_[lastcall.ret]].size = 129 * 1048576 + 512
    /\ pieces_[ptr2piece_[lastcall.ret]].next # NULL
    /\ pieces_[pieces_[ptr2piece_[lastcall.ret]].next].size = 129 * 1048576 - 512

\* the Pieces filed in Bin n
BinMembers(n) == {bins_[n].pieces[i] : i \in 1..Len(bins_[n].pieces)}

\* The Deallocate step has freed the in-use Piece p, whose neighbours are
\* prev_p and next_p; prev_free and next_free tell which of them were free.
\* survivor is the lower of the Pieces merged and behind is the Piece that
\* follows them.  With relink, the prev link of `behind` names the survivor;
\* without, a Piece that is neither p nor a neighbour of p is as before.
FreedAndMerged(p, prev_p, next_p, prev_free, next_free, survivor, behind, relink) ==
    /\ lastcall'.fail = 0 /\ lastcall'.raw = <<>> /\ dev' = dev
    /\ mem_ptr2block_' = mem_ptr2block_
    /\ total_memory_bytes_' = total_memory_bytes_
    /\ pieces_'[survivor].is_free
    /\ pieces_'[survivor].ptr = pieces_[survivor].ptr
    /\ pieces_'[survivor].ptr = Min(pieces_[p].ptr, pieces_[survivor].ptr)
    /\ pieces_'[survivor].size = pieces_[p].size
                                   + (IF prev_free THEN pieces_[prev_p].size ELSE 0)
                                   + (IF next_free THEN pieces_[next_p].size ELSE 0)
    /\ pieces_'[survivor].prev = pieces_[survivor].prev
    /\ pieces_'[survivor].next = behind
    /\ pieces_'[survivor].bin_num = BinNum4BinSize(pieces_'[survivor].size)
    /\ \A a \in ({p} \cup (IF next_free THEN {next_p} ELSE {})) \ {survivor} :
          /\ a \in Recycled'
          /\ pieces_[a].ptr \notin DOMAIN ptr2piece_'
    /\ LivePieces' = LivePieces \ (({p} \cup (IF next_free THEN {next_p} ELSE {})) \ {survivor})
    /\ DOMAIN ptr2piece_' = {pieces_[q].ptr : q \in LivePieces'}
    /\ \A a \in DOMAIN ptr2piece_' : ptr2piece_'[a] = ptr2piece_[a]
    /\ \A n \in BinNums :
          BinMembers(n)' = (BinMembers(n) \ {prev_p, next_p})
                            \cup (IF n = pieces_'[survivor].bin_num THEN {survivor} ELSE {})
    /\ \A q \in LivePieces' \ {survivor} :
          pieces_'[q] = IF q = behind /\ (relink \/ q = next_p)
                        THEN [pieces_[q] EXCEPT !.prev = survivor]
                        ELSE pieces_[q]

\* a step that is Deallocate of the address of an in-use Piece
DeallocateStep(relink) ==
    (/\ IsCall("Deallocate")
     /\ lastcall'.arg \in DOMAIN ptr2piece_
     /\ ~pieces_[ptr2piece_[lastcall'.arg]].is_free) =>
        \E p \in {ptr2piece_[lastcall'.arg]} :
        \E prev_p \in {pieces_[p].prev} :
        \E next_p \in {pieces_[p].next} :
        \E prev_free \in {prev_p # NULL /\ pieces_[prev_p].is_free} :
        \E next_free \in {next_p # NULL /\ pieces_[next_p].is_free} :
            FreedAndMerged(p, prev_p, next_p, prev_free, next_free,
                           IF prev_free THEN prev_p ELSE p,
                           IF next_free THEN pieces_[next_p].next ELSE next_p,
                           relink)

\* C27, as the code has it: Deallocate of an in-use Piece marks it free,
\* absorbs a free next neighbour and is absorbed into a free prev neighbour;
\* the lower Piece survives with the sum of the sizes, each absorbed Piece
\* leaves its Bin and ptr2piece_ and its descriptor is retired, and the
\* survivor is filed in the Bin of its final size.  The other Pieces and the
\* other Blocks are unchanged, except that the Piece behind an absorbed next
\* neighbour has its prev link set to the survivor (line 286).
C27_MergeRelinks == [][DeallocateStep(TRUE)]_vars

\* of three Pieces handed out one after the other, the second was given back
\* and then the first: the first has absorbed the second, and the third,
\* still in use, names the first as its prev
C27_Witness ==
    /\ calls = 5
    /\ lastcall.op = "Deallocate" /\ lastcall.fail = 0
    /\ lastcall.arg \in Blocks
    /\ Len(pieces_) = 4
    /\ Cardinality(LivePieces) = 3
    /\ Cardinality(InUsePieces) = 1
    /\ pieces_[ptr2piece_[lastcall.arg]].is_free
    /\ pieces_[ptr2piece_[lastcall.arg]].next \in InUsePieces
    /\ pieces_[pieces_[ptr2piece_[lastcall.arg]].next].prev = ptr2piece_[lastcall.arg]

\* C27 as stated: ... all Pieces other than the freed Piece and its two
\* neighbours, and all other Blocks, are unchanged.
C27_MergeOthersUnchanged == [][DeallocateStep(FALSE)]_vars

\* sizes around the floor of each class, and beyond the last class up to
\* 2^30; 0, 1 and 511 below the alignment; 2^64 - 512 and 2^64 - 1
ClassSizes ==
    {0, 1, 511, SIZE_MAX - 511, SIZE_MAX}
    \cup UNION {{512 * (2 ^ i) - 512, 512 * (2 ^ i) - 1, 512 * (2 ^ i), 512 * (2 ^ i) + 512} :
                   i \in 0..21}

\* the index of the highest set bit of value, 1 <= value < 2^31
HighestSetBit(value) == CHOOSE k \in 0..30 : 2 ^ k <= value /\ value < 2 ^ (k + 1)

\* the class of the claim: min(20 - 1, highest set bit of max(size, 512) / 512)
SizeClass(size) ==
    IF size < 0 THEN 19
    ELSE IF 19 <= HighestSetBit((IF size >= 512 THEN size ELSE 512) \div 512) THEN 19
    ELSE HighestSetBit((IF size >= 512 THEN size ELSE 512) \div 512)

\* BinNum4BinSize and BinSize4BinNum on ClassSizes and on the twenty classes
ClassesAsClaimed ==
    /\ kBinNumSize = 20 /\ kAlignSize = 512
    /\ \A i \in BinNums : BinSize4BinNum(i) = 512 * (2 ^ i)
    /\ \A size \in ClassSizes : BinNum4BinSize(size) = SizeClass(size)
    /\ \A a, b \in ClassSizes : ULe(a, b) => BinNum4BinSize(a) <= BinNum4BinSize(b)
    /\ \A size \in ClassSizes :
          /\ ULe(512, size) => ULe(BinSize4BinNum(BinNum4BinSize(size)), size)
          /\ BinNum4BinSize(size) < 19 => ULt(size, BinSize4BinNum(BinNum4BinSize(size) + 1))

\* each Piece filed in a Bin has at least the size of the Bin and, but in the
\* last Bin, less than the size of the next Bin
FiledBySize ==
    \A n \in BinNums :
        /\ bins_[n].size = BinSize4BinNum(n)
        /\ \A p \in BinMembers(n) :
              /\ pieces_[p].size >= BinSize4BinNum(n)
              /\ n < kBinNumSize - 1 => pieces_[p].size < BinSize4BinNum(n + 1)

\* C28: BinNum4BinSize(size) is min(19, index of the highest set bit of
\* max(size, 512) / 512) and BinSize4BinNum(i) is 512 << i; BinNum4BinSize
\* is non-decreasing in size; every free Piece filed in Bin i has a size of
\* at least BinSize4BinNum(i) and, for i < 19, below BinSize4BinNum(i + 1).
\* The functions are compared on ClassSizes once, in the initial state.
C28_SizeClass ==
    /\ calls = 0 => ClassesAsClaimed
    /\ Alive => FiledBySize

\* a free Piece of exactly BinSize4BinNum(18) bytes, 128 MiB, is filed in Bin
\* 18, and a Piece of more than BinSize4BinNum(19) bytes was in Bin 19 before
C28_Witness ==
    /\ Alive
    /\ \E p \in BinMembers(18) : pieces_[p].size = BinSize4BinNum(18)
    /\ \E b \in Blocks : mem_ptr2block_[b].size > BinSize4BinNum(19)
    /\ lastcall.op = "DoAllocate"

\* C29: the Bins the constructor makes double in size from one to the next,
\* from 512 bytes (Bin0) to 512 MB (Bin19).
C29_BinSizes512MB ==
    /\ DOMAIN bins_ = 0..19
    /\ \A i \in 0..18 : bins_[i + 1].size = 2 * bins_[i].size
    /\ bins_[0].size = 512
    /\ bins_[19].size = 512 * 1048576

\* a DoAllocate step whose cudaMalloc left an address in mem_ptr
GrowthSucceeded ==
    /\ IsCall("DoAllocate")
    /\ lastcall'.raw # <<>>
    /\ lastcall'.raw[1].f = "cudaMalloc"
    /\ lastcall'.raw[1].ptr # NULL

\* the step added the one Block at ptr, of the bytes asked of cudaMalloc, and
\* the call returned its base: the Piece there is in use and the chain from
\* it is the whole Block
GrewOneBlock(ptr, bytes, aligned_size) ==
    /\ lastcall'.fail = 0
    /\ Fits(aligned_size) = {}
    /\ ptr \notin Blocks
    /\ DOMAIN mem_ptr2block_' = Blocks \cup {ptr}
    /\ mem_ptr2block_'[ptr].size = bytes
    /\ \A b \in Blocks : mem_ptr2block_'[b] = mem_ptr2block_[b]
    /\ total_memory_bytes_' = total_memory_bytes_ + bytes
    /\ lastcall'.ret = ptr
    /\ \E p \in {mem_ptr2block_'[ptr].start_piece} :
          /\ pieces_'[p].ptr = ptr
          /\ ~pieces_'[p].is_free
          /\ pieces_'[p].prev = NULL
          /\ ULe(aligned_size, pieces_'[p].size)
          /\ \/ pieces_'[p].next = NULL /\ pieces_'[p].size = bytes
             \/ /\ pieces_'[p].next # NULL
                /\ pieces_'[pieces_'[p].next].is_free
                /\ pieces_'[pieces_'[p].next].next = NULL
                /\ pieces_'[p].size + pieces_'[pieces_'[p].next].size = bytes

\* the steps of DoAllocate with a size of S
GrowthRetry(S) ==
    /\ IsCall("DoAllocate") =>
          /\ Len(lastcall'.raw) <= 1
          /\ Cardinality(DOMAIN mem_ptr2block_' \ Blocks) <= 1
    /\ GrowthSucceeded /\ lastcall'.arg \in S =>
          GrewOneBlock(lastcall'.raw[1].ptr, lastcall'.raw[1].bytes,
                       MemAlignedBytes(lastcall'.arg, kCudaAlignSize))

\* C30: when the search misses and cudaMalloc succeeds, one Block holding
\* one free Piece over all of it is registered, the search is made once more
\* and succeeds, and DoAllocate returns the base address of the new Block; a
\* call of DoAllocate makes at most one cudaMalloc and at most one Block.
C30_GrowthRetry == [][GrowthRetry(Sizes)]_vars

\* the same for the sizes whose round-up to kCudaAlignSize does not wrap to 0
C30_GrowthRetryNoWrap ==
    [][GrowthRetry({size \in Sizes : MemAlignedBytes(size, kCudaAlignSize) # 0})]_vars

\* DoAllocate(SIZE_MAX) made a Block and failed the check of line 229
C30_WitnessWrap ==
    /\ lastcall.op = "DoAllocate"
    /\ MemAlignedBytes(lastcall.arg, kCudaAlignSize) = 0
    /\ lastcall.raw # <<>>
    /\ lastcall.raw[1].ptr # NULL
    /\ lastcall.fail = 229

(* C31..C39 *)

\* the Piece at the address a DoAllocate step has returned has between
\* aligned_size and twice aligned_size bytes, less than kPieceSplitThreshold
\* of them beyond aligned_size
HandedOutBounded ==
    (IsCall("DoAllocate") /\ lastcall'.fail = 0 /\ lastcall'.ret # NULL) =>
        \E aligned_size \in {MemAlignedBytes(lastcall'.arg, kCudaAlignSize)} :
        \E s \in {pieces_'[ptr2piece_'[lastcall'.ret]].size} :
            /\ ULe(lastcall'.arg, aligned_size)
            /\ aligned_size <= s
            /\ s < 2 * aligned_size
            /\ s - aligned_size < 128 * 1048576
            /\ s - aligned_size < aligned_size

\* C31: the Piece handed out by a DoAllocate that returns an address has a
\* size s with aligned_size <= s < 2 * aligned_size and s - aligned_size <
\* 128 MiB, aligned_size being the size rounded up to 512: what is handed out
\* beyond the aligned request is less than the aligned request.
C31_HandedOutBounded == [][HandedOutBounded]_vars

\* a Piece of 258 MiB taken from a Bin was handed out whole for 131 MiB:
\* 127 MiB beyond the request
C31_Witness ==
    /\ lastcall.op = "DoAllocate" /\ lastcall.fail = 0 /\ lastcall.raw = <<>>
    /\ lastcall.arg = 131 * 1048576
    /\ lastcall.ret \in DOMAIN ptr2piece_
    /\ pieces_[ptr2piece_[lastcall.ret]].size - lastcall.arg = 127 * 1048576
    /\ calls >= 3

\* the free Pieces of the live Blocks that are large enough for aligned_size
FreeFits(aligned_size) ==
    {p \in LivePieces : pieces_[p].is_free /\ ULe(aligned_size, pieces_[p].size)}

\* the step has taken p, a smallest of the Pieces F and the lowest in
\* address of those of its size, and has left the others of F free
TakesBestOf(F, p) ==
    /\ \A q \in F \ {p} :
          \/ pieces_[p].size < pieces_[q].size
          \/ pieces_[p].size = pieces_[q].size /\ pieces_[p].ptr < pieces_[q].ptr
    /\ \A q \in F : pieces_[q].size = pieces_[p].size => pieces_[q].bin_num = pieces_[p].bin_num
    /\ ~pieces_'[p].is_free
    /\ pieces_'[p].ptr = pieces_[p].ptr
    /\ lastcall'.fail = 0 => lastcall'.ret = pieces_[p].ptr
    /\ \A q \in F \ {p} : pieces_'[q].is_free /\ pieces_'[q].size = pieces_[q].size

\* a DoAllocate step takes a best fit among all free Pieces, and grows only
\* when no free Piece fits
SearchTakesBestFit ==
    (IsCall("DoAllocate") /\ lastcall'.arg # 0) =>
        \E F \in {FreeFits(MemAlignedBytes(lastcall'.arg, kCudaAlignSize))} :
            IF F # {}
            THEN lastcall'.raw = <<>> /\ \E p \in F : TakesBestOf(F, p)
            ELSE lastcall'.raw # <<>> \/ lastcall'.fail = 396

\* C32: the Piece FindPiece picks is a best fit over the whole arena: of all
\* free Pieces of at least aligned_size it has the smallest size, and of
\* those of that size (all in its Bin) the lowest address; no free Piece that
\* fits and is smaller is in any Bin.
C32_BestFit == [][SearchTakesBestFit]_vars

\* DoAllocate has handed out whole a Piece larger than its request while a
\* still larger free Piece, which fits as well, stays in a higher Bin
C32_Witness ==
    /\ lastcall.op = "DoAllocate" /\ lastcall.fail = 0 /\ lastcall.raw = <<>>
    /\ lastcall.ret \in DOMAIN ptr2piece_
    /\ \E p \in {ptr2piece_[lastcall.ret]} :
          /\ pieces_[p].size > MemAlignedBytes(lastcall.arg, kCudaAlignSize)
          /\ \E q \in LivePieces :
                /\ pieces_[q].is_free
                /\ pieces_[q].size > pieces_[p].size
                /\ pieces_[q].bin_num > BinNum4BinSize(pieces_[p].size)

\* the chain of the Block at b is one Piece, at the Block's address and of
\* the Block's size
OnePieceBlock(b) ==
    /\ Chain(b) = <<mem_ptr2block_[b].start_piece>>
    /\ pieces_[mem_ptr2block_[b].start_piece].ptr = b
    /\ pieces_[mem_ptr2block_[b].start_piece].size = mem_ptr2block_[b].size
    /\ pieces_[mem_ptr2block_[b].start_piece].prev = NULL
    /\ pieces_[mem_ptr2block_[b].start_piece].next = NULL

\* the reclamation pass retires one Piece for each Block it releases
OnePiecePerReleasedBlock ==
    IsCall("DeallocateFreeBlockForGarbageCollection") =>
        /\ Cardinality(Recycled' \ Recycled) = Cardinality(Blocks \ DOMAIN mem_ptr2block_')
        /\ Cardinality(Recycled' \ Recycled) = Len(lastcall'.raw)

\* C33: between the calls, a Block whose Pieces are all free has a chain of
\* exactly one Piece, with ptr = block.ptr and size = block.size; so the
\* reclamation pass removes one Piece for each Block it releases.
C33_IdleBlockOnePiece ==
    /\ [](Alive => \A b \in IdleBlocks : OnePieceBlock(b))
    /\ [][OnePiecePerReleasedBlock]_vars

\* Deallocate has made a Block idle by merging the Piece freed with a free
\* neighbour, while another Block has a Piece in use
C33_Witness ==
    /\ lastcall.op = "Deallocate" /\ lastcall.fail = 0 /\ lastcall.arg # NULL
    /\ lastcall.arg \in IdleBlocks
    /\ OnePieceBlock(lastcall.arg)
    /\ recycle_piece_list_ # NULL
    /\ Blocks \ IdleBlocks # {}

\* start_piece of the Block at b is a descriptor in use for the Piece at the
\* Block's address, the first of its chain
HeadIsLive(b) ==
    \E p \in {mem_ptr2block_[b].start_piece} :
        /\ p \in Descriptors \ Recycled
        /\ pieces_[p].prev = NULL
        /\ pieces_[p].ptr = b
        /\ mem_ptr2block_[b].ptr = b
        /\ b \in DOMAIN ptr2piece_
        /\ ptr2piece_[b] = p

\* a step keeps start_piece of every Block it keeps, and retires start_piece
\* of a Block only if it releases the Block
HeadKept ==
    \A b \in Blocks :
        /\ b \in DOMAIN mem_ptr2block_' =>
              /\ mem_ptr2block_'[b].start_piece = mem_ptr2block_[b].start_piece
              /\ mem_ptr2block_[b].start_piece \notin Recycled'
        /\ mem_ptr2block_[b].start_piece \in Recycled' =>
              /\ b \notin DOMAIN mem_ptr2block_'
              /\ lastcall'.op = "DeallocateFreeBlockForGarbageCollection"

\* C34: for every live Block start_piece is a live descriptor with prev =
\* null and ptr = block.ptr, after any splits and merges: no merge absorbs
\* and no split replaces the head descriptor of a Block, and it is retired
\* only when the Block is released.
C34_HeadDescriptor ==
    /\ [](\A b \in Blocks : HeadIsLive(b))
    /\ [][HeadKept]_vars

\* Deallocate has merged the Piece freed into the free head Piece of its
\* Block, which is still start_piece and has a Piece in use behind it
C34_Witness ==
    /\ lastcall.op = "Deallocate" /\ lastcall.fail = 0 /\ lastcall.arg # NULL
    /\ lastcall.arg \notin DOMAIN ptr2piece_
    /\ \E b \in Blocks :
          \E p \in {mem_ptr2block_[b].start_piece} :
              /\ pieces_[p].is_free
              /\ b < lastcall.arg /\ lastcall.arg < b + pieces_[p].size
              /\ pieces_[p].next # NULL
              /\ ~pieces_[pieces_[p].next].is_free

\* each Bin holds free Pieces that name it, in strict order of size, then
\* address, as the fields are now
BinsKeyed ==
    \A n \in BinNums :
        \A i \in 1..Len(bins_[n].pieces) :
            /\ pieces_[bins_[n].pieces[i]].bin_num = n
            /\ pieces_[bins_[n].pieces[i]].is_free
            /\ i < Len(bins_[n].pieces) =>
                  \/ pieces_[bins_[n].pieces[i]].size < pieces_[bins_[n].pieces[i + 1]].size
                  \/ /\ pieces_[bins_[n].pieces[i]].size = pieces_[bins_[n].pieces[i + 1]].size
                     /\ pieces_[bins_[n].pieces[i]].ptr < pieces_[bins_[n].pieces[i + 1]].ptr

\* a Piece taken out of its Bin is in no Bin
ErasedAreOut ==
    \A p \in Descriptors :
        pieces_[p].bin_num = kInvalidBinNum => \A n \in BinNums : CountIn(n, p) = 0

\* C35: size and ptr of a Piece are never written while the Piece is in the
\* std::set of a Bin (no call ends with such a write made: KeyWrite); each
\* Bin stays ordered by (size, address), and an erase by key takes out the
\* Piece meant.
C35_KeysNotWrittenInBin ==
    /\ ~lastcall.ub
    /\ BinsKeyed
    /\ ErasedAreOut

\* Deallocate has merged the Piece freed into its free prev neighbour, which
\* was taken out of its Bin, has grown and is now filed, by its new size,
\* in a Bin that holds another Piece
C35_Witness ==
    /\ lastcall.op = "Deallocate" /\ lastcall.fail = 0 /\ lastcall.arg # NULL
    /\ lastcall.arg \notin DOMAIN ptr2piece_
    /\ \E p \in LivePieces :
          /\ pieces_[p].is_free
          /\ pieces_[p].ptr < lastcall.arg
          /\ lastcall.arg < pieces_[p].ptr + pieces_[p].size
          /\ pieces_[p].bin_num = BinNum4BinSize(pieces_[p].size)
          /\ BinNum4BinSize(lastcall.arg - pieces_[p].ptr) # pieces_[p].bin_num
          /\ Len(bins_[pieces_[p].bin_num].pieces) >= 2

\* a step of DoAllocate or Deallocate keeps every Block and its device
\* memory, calls no cudaFree, and does not bring total_memory_bytes_ down
PublicCallKeepsBlocks ==
    (IsCall("DoAllocate") \/ IsCall("Deallocate")) =>
        /\ Blocks \subseteq DOMAIN mem_ptr2block_'
        /\ \A b \in Blocks : mem_ptr2block_'[b] = mem_ptr2block_[b]
        /\ total_memory_bytes_' >= total_memory_bytes_
        /\ dev \subseteq dev'
        /\ \A i \in 1..Len(lastcall'.raw) : lastcall'.raw[i].f = "cudaMalloc"

\* C36: over the calls of DoAllocate and Deallocate before the destructor no
\* Block is released and total_memory_bytes_ never decreases: the reclamation
\* pass is not run by either, so a Block whose Pieces are all free stays on
\* the device until the destructor.
C36_NoReleaseBeforeTeardown ==
    /\ [](lastcall.op # "~CachingAllocator" =>
             /\ lastcall.op \in {"CachingAllocator", "DoAllocate", "Deallocate"}
             /\ dev = BlocksOnDevice)
    /\ [][PublicCallKeepsBlocks]_vars

\* DoAllocate has failed for want of device memory (line 396) while a Block
\* whose Pieces are all free is still held
C36_Witness ==
    /\ lastcall.op = "DoAllocate" /\ lastcall.fail = 396
    /\ lastcall.raw # <<>> /\ lastcall.raw[1].ptr = NULL
    /\ IdleBlocks # {}
    /\ BlocksOnDevice \subseteq dev
    /\ total_memory_bytes_ > 0

\* a DoAllocate step: the size rounded up to kCudaAlignSize is at least the
\* size, the bytes asked of cudaMalloc are at least that (or no cudaMalloc
\* is made and the call fails), and an address returned is that of a Piece
\* of at least the size; the comparisons are those of size_t
NoWrapAround ==
    (IsCall("DoAllocate") /\ lastcall'.arg # 0) =>
        \E aligned_size \in {MemAlignedBytes(lastcall'.arg, kCudaAlignSize)} :
            /\ ULe(lastcall'.arg, aligned_size)
            /\ lastcall'.raw # <<>> =>
                  /\ ULe(aligned_size, lastcall'.raw[1].bytes)
                  /\ ULe(lastcall'.arg, lastcall'.raw[1].bytes)
            /\ (lastcall'.raw = <<>> /\ Fits(aligned_size) = {}) => lastcall'.fail = 396
            /\ (lastcall'.fail = 0 /\ lastcall'.ret # NULL) =>
                  ULe(lastcall'.arg, pieces_'[ptr2piece_'[lastcall'.ret]].size)

\* C37: for every size of size_t, with arithmetic modulo 2^64, the size
\* rounded up to the alignment is at least the size, and the Block size is
\* at least that or the growth fails; no size near the top of the range wraps
\* to a small aligned_size and is served with less than was asked.
C37_NoWrapAround == [][NoWrapAround]_vars

\* DoAllocate(SIZE_MAX - 511), whose round-up does not wrap: the Block size
\* wraps and the growth is refused without a call of cudaMalloc
C37_WitnessRefused ==
    /\ lastcall.op = "DoAllocate" /\ lastcall.arg = SIZE_MAX - 511
    /\ lastcall.raw = <<>> /\ lastcall.fail = 396

\* each Piece of each Block has a size that is a positive multiple of
\* kCudaAlignSize and lies a multiple of kCudaAlignSize into its Block
PiecesAligned ==
    \A b \in Blocks :
        \A p \in SeqRange(Chain(b)) :
            /\ pieces_[p].size > 0
            /\ IsAlignedSize(pieces_[p].size, kCudaAlignSize)
            /\ pieces_[p].ptr >= b
            /\ IsAlignedSize(pieces_[p].ptr - b, kCudaAlignSize)

\* C38: every Piece of every live Block, free or in use, has a size that is
\* a positive multiple of 512 and an address that is the Block's address
\* plus a multiple of 512; the checks of alignment in FindPiece (lines 245,
\* 264, 265) never fail and no Piece of size 0 is ever made.
C38_PiecesAligned ==
    /\ PiecesAligned
    /\ lastcall.fail \notin {245, 264, 265}

\* the same in the states after a call that failed no check
C38_PiecesAlignedAlive == Alive => C38_PiecesAligned

\* DoAllocate(SIZE_MAX) has shrunk the Piece of the Block it made to 0 bytes
C38_WitnessZero ==
    /\ lastcall.op = "DoAllocate" /\ lastcall.fail = 229
    /\ \E b \in Blocks : pieces_[mem_ptr2block_[b].start_piece].size = 0

\* the descriptor p is linked in the chain of exactly one Block and is the
\* entry of ptr2piece_ at its address
IsLive(p) ==
    /\ Cardinality({b \in Blocks : p \in SeqRange(Chain(b))}) = 1
    /\ pieces_[p].ptr \in DOMAIN ptr2piece_
    /\ ptr2piece_[pieces_[p].ptr] = p

\* the descriptor p is on recycle_piece_list_, in no Bin, in no chain and
\* in no entry of ptr2piece_, and holds no address, size or prev link
IsRetired(p) ==
    /\ p \in Recycled
    /\ \A n \in BinNums : CountIn(n, p) = 0
    /\ p \notin LivePieces
    /\ \A q \in LivePieces : pieces_[q].next # p /\ pieces_[q].prev # p
    /\ \A a \in DOMAIN ptr2piece_ : ptr2piece_[a] # p
    /\ pieces_[p].ptr = NULL /\ pieces_[p].size = 0 /\ pieces_[p].prev = NULL
    /\ pieces_[p].bin_num = kInvalidBinNum

\* the descriptors a step has put to use are taken from recycle_piece_list_
\* first, descriptors are made only when the list has run out, and a
\* descriptor put to use again has an address and links of the live Pieces
DescriptorsReused ==
    \E N \in {LivePieces' \ LivePieces} :
        (lastcall'.fail = 0 /\ N # {}) =>
            /\ N \subseteq Recycled \cup ((Len(pieces_) + 1)..Len(pieces_'))
            /\ (Len(pieces_) + 1)..Len(pieces_') \subseteq N
            /\ Len(pieces_') > Len(pieces_) => Recycled \subseteq N
            /\ Recycled' = Recycled \ N
            /\ \A p \in N :
                  /\ pieces_'[p].ptr # NULL
                  /\ pieces_'[p].next \in LivePieces' \cup {NULL}
                  /\ pieces_'[p].next # NULL =>
                        /\ pieces_'[pieces_'[p].next].prev = p
                        /\ pieces_'[pieces_'[p].next].ptr = pieces_'[p].ptr + pieces_'[p].size
                  /\ pieces_'[p].prev \in LivePieces' \cup {NULL}
                  /\ pieces_'[p].prev # NULL => pieces_'[pieces_'[p].prev].next = p
                  /\ pieces_'[p].is_free =>
                        /\ pieces_'[p].bin_num = BinNum4BinSize(pieces_'[p].size)
                        /\ \E i \in 1..Len(bins_'[pieces_'[p].bin_num].pieces) :
                              bins_'[pieces_'[p].bin_num].pieces[i] = p

\* C39: between the calls every descriptor of pieces_ is either live (in
\* the chain of exactly one Block and in ptr2piece_) or retired (on
\* recycle_piece_list_, in no Bin, no chain and no entry of ptr2piece_), never
\* both; a new Piece takes a descriptor from recycle_piece_list_ if there is
\* one and makes one only if there is none, and a descriptor used again has
\* nothing of the address, links or Bin of the retired Piece.
C39_DescriptorStates ==
    /\ [](Alive => \A p \in Descriptors : IsLive(p) # IsRetired(p))
    /\ [][DescriptorsReused]_vars

\* a Block was made, split, merged again and released by the reclamation
\* pass; DoAllocate has then made a Block and split it with the two
\* descriptors of the recycle list, making none
C39_Witness ==
    /\ calls = 4
    /\ lastcall.op = "DoAllocate" /\ lastcall.fail = 0 /\ lastcall.raw # <<>>
    /\ Len(pieces_) = 2
    /\ Cardinality(LivePieces) = 2
    /\ Recycled = {}

=============================================================================
